---- MODULE Spec2Model ----
(***************************************************************************)
(* CPU scheduling simulation engine of backend/schedulers: the shared      *)
(* BaseScheduler bookkeeping and the run_simulation loops of the FCFS,     *)
(* SJF/SRTF, Priority and Round-Robin schedulers.  One step of the model   *)
(* is one iteration of a run_simulation while-loop.                        *)
(*                                                                         *)
(* A Process object is identified by its pid (well-formed input has        *)
(* distinct pids); procs maps a pid to the fields of its Process object.   *)
(* The explanation strings and the never-used waiting_queue are left out.  *)
(*                                                                         *)
(* The ContiguousMemoryManager of backend/memory/contiguous.py is modelled *)
(* beside it: one step is one allocate or deallocate call.                 *)
(***************************************************************************)
EXTENDS Integers, Sequences, FiniteSets, TLC

\* ---- bounds of the explored inputs ----
\* the single-policy specifications run NumProcs processes; Spec, which runs
\* every policy, runs NumProcsAll; Spec and SpecRR draw bursts up to MaxBurstLow;
\* SpecIdle draws arrival times up to MaxArrivalIdle
NumProcs == 3
NumProcsAll == 2
MaxArrival == 1
MaxArrivalIdle == 4
MaxBurst == 3
MaxBurstLow == 2
MaxPriority == 1
MaxQuantum == 2

\* Python's None in the Optional[int] fields and in running_process
None == -1

PIDs == 1..NumProcs
PIDsAll == 1..NumProcsAll

VARIABLES
    algorithm,                  \* "fcfs" | "sjf" | "priority" | "round_robin"
    preemptive,                 \* SJFScheduler / PriorityScheduler flag
    time_quantum,               \* RoundRobinScheduler.time_quantum
    pc,                         \* "init" | "loop" | "done": position in run_simulation
    processes,                  \* the list handed to run_simulation (sequence of pids)
    process_index,              \* local of run_simulation
    idle_time,                  \* local of run_simulation
    procs,                      \* pid -> fields of the Process object
    current_time,
    ready_queue,
    completed_processes,
    running_process,
    timeline,
    state_changes,
    context_switches,
    gantt_chart,
    current_quantum_remaining,
    iterations,                 \* history: passes through the while body so far
    route,                      \* "none" (run_simulation called directly) | "run" | "compare"
    request,                    \* the caller's Process objects as they were sent
    request_list,               \* the caller's list (sequence of pids)
    shared,                     \* the scheduler works on the caller's list and objects
    results,                    \* compare_algorithms: the results collected so far
    blocks,                     \* ContiguousMemoryManager.blocks
    next_fit_pointer,           \* ContiguousMemoryManager.next_fit_pointer (0-based index)
    memory_result               \* the outcome of the last allocate / deallocate call

vars == <<algorithm, preemptive, time_quantum, pc, processes, process_index,
          idle_time, procs, current_time, ready_queue, completed_processes,
          running_process, timeline, state_changes, context_switches,
          gantt_chart, current_quantum_remaining, iterations,
          route, request, request_list, shared, results,
          blocks, next_fit_pointer, memory_result>>

memory_vars == <<blocks, next_fit_pointer, memory_result>>

route_vars == <<route, request, request_list, shared, results>>

config == <<algorithm, preemptive, time_quantum>>

Min(a, b) == IF a <= b THEN a ELSE b

\* ---- models.Process ----
Process(pid, arrival_time, burst_time, priority) ==
    [pid |-> pid, arrival_time |-> arrival_time, burst_time |-> burst_time,
     priority |-> priority, state |-> "NEW", remaining_time |-> burst_time,
     wait_time |-> 0, turnaround_time |-> 0, response_time |-> None,
     start_time |-> None, completion_time |-> None]

\* ---- the scheduler object as one record (fields of BaseScheduler) ----
Self ==
    [procs |-> procs, current_time |-> current_time, ready_queue |-> ready_queue,
     completed_processes |-> completed_processes,
     running_process |-> running_process, timeline |-> timeline,
     state_changes |-> state_changes, context_switches |-> context_switches,
     gantt_chart |-> gantt_chart,
     current_quantum_remaining |-> current_quantum_remaining]

Commit(s) ==
    /\ procs' = s.procs
    /\ current_time' = s.current_time
    /\ ready_queue' = s.ready_queue
    /\ completed_processes' = s.completed_processes
    /\ running_process' = s.running_process
    /\ timeline' = s.timeline
    /\ state_changes' = s.state_changes
    /\ context_switches' = s.context_switches
    /\ gantt_chart' = s.gantt_chart
    /\ current_quantum_remaining' = s.current_quantum_remaining

\* the scheduler object together with the locals of run_simulation
CommitBody(r) ==
    /\ Commit(r.self)
    /\ process_index' = r.process_index
    /\ idle_time' = r.idle_time
    /\ iterations' = iterations + 1

\* ---- BaseScheduler helpers ----
\* variant: the record is stamped with the arrival time of its process
_record_state_change_at_arrival(s, pid, from_state, to_state, reason) ==
    [s EXCEPT !.state_changes =
        Append(@, [time |-> s.procs[pid].arrival_time, pid |-> pid,
                   from_state |-> from_state, to_state |-> to_state, reason |-> reason])]

_record_state_change(s, pid, from_state, to_state, reason) ==
    [s EXCEPT !.state_changes =
        Append(@, [time |-> s.current_time, pid |-> pid, from_state |-> from_state,
                   to_state |-> to_state, reason |-> reason])]

_add_timeline_event(s, event_type) ==
    [s EXCEPT !.timeline = Append(@, [time |-> s.current_time, event_type |-> event_type])]

\* variant: the old state is read after the assignment
_change_state_stale(s, p, new_state, reason) ==
    LET s1 == [s EXCEPT !.procs[p].state = new_state]
        old_state == s1.procs[p].state
    IN  _record_state_change(s1, p, old_state, new_state, reason)

_change_state(s, p, new_state, reason) ==
    LET old_state == s.procs[p].state
        s1 == [s EXCEPT !.procs[p].state = new_state]
    IN  _record_state_change(s1, p, old_state, new_state, reason)

add_process(s, p) ==
    LET s1 == [s EXCEPT !.procs[p].state = "READY", !.ready_queue = Append(@, p)]
        s2 == _record_state_change(s1, p, "NEW", "READY", "arrived and added to ready queue")
    IN  _add_timeline_event(s2, "process_arrival")

\* variant: a context switch costs one unit of time
context_switch_takes_time(s, from_process, to_process, reason) ==
    LET s1 == [s EXCEPT !.context_switches =
                   Append(@, [time |-> s.current_time, from_pid |-> from_process,
                              to_pid |-> to_process, reason |-> reason])]
    IN  [_add_timeline_event(s1, "context_switch") EXCEPT !.current_time = @ + 1]

context_switch(s, from_process, to_process, reason) ==
    LET s1 == [s EXCEPT !.context_switches =
                   Append(@, [time |-> s.current_time, from_pid |-> from_process,
                              to_pid |-> to_process, reason |-> reason])]
    IN  _add_timeline_event(s1, "context_switch")

\* variant: wait_time subtracts remaining_time instead of burst_time
_complete_process_wait_bug(s, p) ==
    LET completion_time == s.current_time
        turnaround_time == completion_time - s.procs[p].arrival_time
        wait_time == turnaround_time - s.procs[p].remaining_time
        s1 == [s EXCEPT !.procs[p].completion_time = completion_time,
                        !.procs[p].turnaround_time = turnaround_time,
                        !.procs[p].wait_time = wait_time]
        s2 == _change_state(s1, p, "TERMINATED", "Process completed execution")
    IN  [s2 EXCEPT !.completed_processes = Append(@, p)]

_complete_process(s, p) ==
    LET completion_time == s.current_time
        turnaround_time == completion_time - s.procs[p].arrival_time
        wait_time == turnaround_time - s.procs[p].burst_time
        s1 == [s EXCEPT !.procs[p].completion_time = completion_time,
                        !.procs[p].turnaround_time = turnaround_time,
                        !.procs[p].wait_time = wait_time]
        s2 == _change_state(s1, p, "TERMINATED", "Process completed execution")
    IN  [s2 EXCEPT !.completed_processes = Append(@, p)]

\* variant: without the `if process.start_time is None` guard
MarkRunning_resets(s, p) ==
    IF s.procs[p].state # "RUNNING"
    THEN LET a == _change_state(s, p, "RUNNING", "Selected by scheduler")
         IN  [a EXCEPT !.procs[p].start_time = a.current_time,
                       !.procs[p].response_time = a.current_time - a.procs[p].arrival_time]
    ELSE s

\* first dispatch bookkeeping of execute_process (the `if state != RUNNING` block)
MarkRunning(s, p) ==
    IF s.procs[p].state # "RUNNING"
    THEN LET a == _change_state(s, p, "RUNNING", "Selected by scheduler")
         IN  IF a.procs[p].start_time = None
             THEN [a EXCEPT !.procs[p].start_time = a.current_time,
                            !.procs[p].response_time = a.current_time - a.procs[p].arrival_time]
             ELSE a
    ELSE s

\* variant: a span of the same process is extended, leaving its duration stale
GanttAppend_extend(gantt, p, start, actual_duration) ==
    IF gantt # <<>> /\ gantt[Len(gantt)].pid = p /\ gantt[Len(gantt)].end = start
    THEN [gantt EXCEPT ![Len(gantt)].end = start + actual_duration]
    ELSE Append(gantt, [pid |-> p, start |-> start, end |-> start + actual_duration,
                        duration |-> actual_duration])

\* variant: a tick of the process of the last entry extends that entry
GanttAppend_merge(gantt, p, start, actual_duration) ==
    IF gantt # <<>> /\ gantt[Len(gantt)].pid = p /\ gantt[Len(gantt)].end = start
    THEN [gantt EXCEPT ![Len(gantt)].end = start + actual_duration,
                       ![Len(gantt)].duration = @ + actual_duration]
    ELSE Append(gantt, [pid |-> p, start |-> start, end |-> start + actual_duration,
                        duration |-> actual_duration])

\* self.gantt_chart.append({"pid", "start", "end", "duration"})
GanttAppend(gantt, p, start, actual_duration) ==
    Append(gantt, [pid |-> p, start |-> start, end |-> start + actual_duration,
                   duration |-> actual_duration])

execute_process(s, p, duration) ==
    LET s1 == MarkRunning(s, p)
        actual_duration == Min(duration, s1.procs[p].remaining_time)
        s2 == [s1 EXCEPT !.procs[p].remaining_time = @ - actual_duration,
                         !.gantt_chart = GanttAppend(@, p, s1.current_time, actual_duration),
                         !.current_time = @ + actual_duration]
    IN  IF s2.procs[p].remaining_time = 0 THEN _complete_process(s2, p) ELSE s2

\* ---- calculate_metrics: floats as scaled integers ----
\* variant: truncation instead of round()
RoundDiv_truncate(num, den) == num \div den

\* round(num / den, k) scaled by 10^k, given num already scaled: round half to even
RoundDiv(num, den) ==
    LET q == num \div den
        r == num % den
    IN  IF 2 * r < den THEN q
        ELSE IF 2 * r > den THEN q + 1
        ELSE IF q % 2 = 0 THEN q ELSE q + 1

RECURSIVE SumField(_, _, _)
SumField(ps, seq, field) ==
    IF seq = <<>> THEN 0
    ELSE (IF ps[seq[1]][field] = None THEN 0 ELSE ps[seq[1]][field])
         + SumField(ps, Tail(seq), field)

\* averages in hundredths, cpu_utilization in hundredths of a percent,
\* throughput in ten-thousandths
calculate_metrics(s) ==
    IF s.completed_processes = <<>>
    THEN [average_waiting_time |-> 0, average_turnaround_time |-> 0,
          average_response_time |-> 0, cpu_utilization |-> 0, throughput |-> 0,
          total_context_switches |-> 0]
    ELSE LET n == Len(s.completed_processes)
             total_burst == SumField(s.procs, s.completed_processes, "burst_time")
         IN  [average_waiting_time |->
                  RoundDiv(100 * SumField(s.procs, s.completed_processes, "wait_time"), n),
              average_turnaround_time |->
                  RoundDiv(100 * SumField(s.procs, s.completed_processes, "turnaround_time"), n),
              average_response_time |->
                  RoundDiv(100 * SumField(s.procs, s.completed_processes, "response_time"), n),
              cpu_utilization |->
                  IF s.current_time > 0 THEN RoundDiv(10000 * total_burst, s.current_time) ELSE 0,
              throughput |->
                  IF s.current_time > 0 THEN RoundDiv(10000 * n, s.current_time) ELSE 0,
              total_context_switches |-> Len(s.context_switches)]

\* ---- list.sort(key=...) : tuple comparison and a stable insertion sort ----
\* Python's <= on tuples of integers of equal length
RECURSIVE TupleLe(_, _)
TupleLe(a, b) ==
    IF a = <<>> THEN TRUE
    ELSE IF a[1] # b[1] THEN a[1] < b[1]
         ELSE TupleLe(Tail(a), Tail(b))

\* key is a function from list elements to key tuples
RECURSIVE Insert(_, _, _)
Insert(x, sorted, key) ==
    IF sorted = <<>> THEN <<x>>
    ELSE IF TupleLe(key[sorted[1]], key[x]) THEN <<sorted[1]>> \o Insert(x, Tail(sorted), key)
         ELSE <<x>> \o sorted

RECURSIVE Sort(_, _)
Sort(seq, key) ==
    IF seq = <<>> THEN <<>>
    ELSE Insert(seq[Len(seq)], Sort(SubSeq(seq, 1, Len(seq) - 1), key), key)

\* variant: the sort key lacks the pid tie-break
ArrivalKey_no_tiebreak(ps) == [p \in DOMAIN ps |-> <<ps[p].arrival_time>>]

\* key=lambda p: (p.arrival_time, p.pid)
ArrivalKey(ps) == [p \in DOMAIN ps |-> <<ps[p].arrival_time, p>>]

\* ---- parts shared by the four run_simulation loops ----
\* variant: `<=` in the first disjunct of the loop condition
LoopCondition_inclusive ==
    \/ process_index <= Len(processes)
    \/ running_process # None
    \/ ready_queue # <<>>

\* while process_index < len(processes) or self.running_process or self.ready_queue
LoopCondition ==
    \/ process_index < Len(processes)
    \/ running_process # None
    \/ ready_queue # <<>>

\* the inner while collecting new_arrivals (process_index is 0-based in the source)
RECURSIVE NewArrivals(_, _)
NewArrivals(idx, now) ==
    IF idx < Len(processes) /\ procs[processes[idx + 1]].arrival_time <= now
    THEN <<processes[idx + 1]>> \o NewArrivals(idx + 1, now)
    ELSE <<>>

\* for process in new_arrivals: self.add_process(process)
RECURSIVE AddArrivals(_, _)
AddArrivals(s, new_arrivals) ==
    IF new_arrivals = <<>> THEN s
    ELSE AddArrivals(add_process(s, new_arrivals[1]), Tail(new_arrivals))

\* variant: pop() instead of pop(0)
DispatchIfIdle_lifo(s, reason) ==
    IF s.running_process = None /\ s.ready_queue # <<>>
    THEN LET next_process == s.ready_queue[Len(s.ready_queue)]
             s1 == [s EXCEPT !.ready_queue = SubSeq(@, 1, Len(@) - 1),
                             !.running_process = next_process]
         IN  IF Len(s1.completed_processes) > 0 \/ Len(s1.gantt_chart) > 0
             THEN context_switch(s1, None, next_process, reason)
             ELSE s1
    ELSE s

\* variant: without the `completed_processes or gantt_chart` guard
DispatchIfIdle_always_switch(s, reason) ==
    IF s.running_process = None /\ s.ready_queue # <<>>
    THEN LET next_process == Head(s.ready_queue)
             s1 == [s EXCEPT !.ready_queue = Tail(@), !.running_process = next_process]
         IN  context_switch(s1, None, next_process, reason)
    ELSE s

\* the dispatch of an idle CPU common to all schedule() methods
DispatchIfIdle(s, reason) ==
    IF s.running_process = None /\ s.ready_queue # <<>>
    THEN LET next_process == Head(s.ready_queue)
             s1 == [s EXCEPT !.ready_queue = Tail(@), !.running_process = next_process]
         IN  IF Len(s1.completed_processes) > 0 \/ Len(s1.gantt_chart) > 0
             THEN context_switch(s1, None, next_process, reason)
             ELSE s1
    ELSE s

\* variant: the idle branch forgets to advance the clock
FastForward_stuck(s, next_arrival) == s

\* variant: the idle gap is subtracted from the clock
FastForward_backwards(s, next_arrival) ==
    [s EXCEPT !.current_time = @ - (next_arrival - @)]

\* variant: the idle gap is walked one unit at a time
FastForward_single_step(s, next_arrival) == [s EXCEPT !.current_time = @ + 1]

\* variant: the clock is set one unit past the next arrival
FastForward_overshoot(s, next_arrival) == [s EXCEPT !.current_time = next_arrival + 1]

\* self.current_time = next_arrival
FastForward(s, next_arrival) == [s EXCEPT !.current_time = next_arrival]

\* the else-branch of the loop body: fast forward over an idle gap
IdleBranch(s, idx) ==
    IF idx < Len(processes)
    THEN LET next_arrival == s.procs[processes[idx + 1]].arrival_time
             idle_duration == next_arrival - s.current_time
         IN  IF idle_duration > 0
             THEN FastForward(_add_timeline_event(s, "cpu_idle"), next_arrival)
             ELSE s
    ELSE s

IdleDuration(s, idx) ==
    IF idx < Len(processes) /\ s.procs[processes[idx + 1]].arrival_time - s.current_time > 0
    THEN s.procs[processes[idx + 1]].arrival_time - s.current_time
    ELSE 0

\* if self.running_process and self.running_process.remaining_time == 0: running_process = None
ClearIfCompleted(s) ==
    IF s.running_process # None /\ s.procs[s.running_process].remaining_time = 0
    THEN [s EXCEPT !.running_process = None]
    ELSE s

\* ---- FCFS ----
FCFS_schedule(s, new_arrivals) ==
    DispatchIfIdle(AddArrivals(s, new_arrivals), "FCFS scheduling")

\* one pass through the body of the while loop of run_simulation
FCFS_loop_body(s, idx0, idle0) ==
    LET new_arrivals == NewArrivals(idx0, s.current_time)
        idx == idx0 + Len(new_arrivals)
        s1 == FCFS_schedule(s, new_arrivals)
    IN  IF s1.running_process # None
        THEN [self |-> ClearIfCompleted(execute_process(s1, s1.running_process, 1)),
              process_index |-> idx, idle_time |-> idle0]
        ELSE [self |-> IdleBranch(s1, idx),
              process_index |-> idx, idle_time |-> idle0 + IdleDuration(s1, idx)]

FCFS_iteration ==
    /\ pc = "loop"
    /\ algorithm = "fcfs"
    /\ LoopCondition
    /\ CommitBody(FCFS_loop_body(Self, process_index, idle_time))
    /\ UNCHANGED <<config, pc, processes, route_vars, memory_vars>>

\* ---- SJF / SRTF ----
\* variant: the sort key lacks the pid tie-break
RemainingKey_no_tiebreak(ps) == [p \in DOMAIN ps |-> <<ps[p].remaining_time>>]

\* key=lambda p: (p.remaining_time, p.pid)
RemainingKey(ps) == [p \in DOMAIN ps |-> <<ps[p].remaining_time, p>>]

\* variant: preempts only for a job shorter by more than one unit
SJF_preempts_off_by_one(s) ==
    /\ preemptive
    /\ s.running_process # None
    /\ s.ready_queue # <<>>
    /\ s.procs[Head(s.ready_queue)].remaining_time + 1 < s.procs[s.running_process].remaining_time

\* variant: a job of equal remaining time preempts as well
SJF_preempts_on_tie(s) ==
    /\ preemptive
    /\ s.running_process # None
    /\ s.ready_queue # <<>>
    /\ s.procs[Head(s.ready_queue)].remaining_time <= s.procs[s.running_process].remaining_time

\* variant: the preemption check ignores the preemptive flag
SJF_preempts_always(s) ==
    /\ s.running_process # None
    /\ s.ready_queue # <<>>
    /\ s.procs[Head(s.ready_queue)].remaining_time < s.procs[s.running_process].remaining_time

\* if self.preemptive and self.running_process and self.ready_queue:
\*     if shortest_in_queue.remaining_time < self.running_process.remaining_time:
SJF_preempts(s) ==
    /\ preemptive
    /\ s.running_process # None
    /\ s.ready_queue # <<>>
    /\ s.procs[Head(s.ready_queue)].remaining_time < s.procs[s.running_process].remaining_time

SJF_schedule(s, new_arrivals) ==
    LET s1 == AddArrivals(s, new_arrivals)
        s2 == [s1 EXCEPT !.ready_queue = Sort(@, RemainingKey(s1.procs))]
    IN  IF SJF_preempts(s2)
        THEN LET s3 == _change_state(s2, s2.running_process, "READY", "Preempted by shorter job")
                 s4 == [s3 EXCEPT !.ready_queue =
                            Sort(Append(@, s3.running_process), RemainingKey(s3.procs))]
                 next_process == Head(s4.ready_queue)
                 s5 == [s4 EXCEPT !.ready_queue = Tail(@)]
                 s6 == context_switch(s5, s5.running_process, next_process,
                                      "Preemption (shorter job arrived)")
             IN  [s6 EXCEPT !.running_process = next_process]
        ELSE DispatchIfIdle(s2, "SJF scheduling")

\* one pass through the body of the while loop of run_simulation
SJF_loop_body(s, idx0, idle0) ==
    LET new_arrivals == NewArrivals(idx0, s.current_time)
        idx == idx0 + Len(new_arrivals)
        s1 == SJF_schedule(s, new_arrivals)
    IN  IF s1.running_process # None
        THEN [self |-> ClearIfCompleted(execute_process(s1, s1.running_process, 1)),
              process_index |-> idx, idle_time |-> idle0]
        ELSE [self |-> IdleBranch(s1, idx),
              process_index |-> idx, idle_time |-> idle0 + IdleDuration(s1, idx)]

SJF_iteration ==
    /\ pc = "loop"
    /\ algorithm = "sjf"
    /\ LoopCondition
    /\ CommitBody(SJF_loop_body(Self, process_index, idle_time))
    /\ UNCHANGED <<config, pc, processes, route_vars, memory_vars>>

\* ---- Priority ----
\* variant: the sort key lacks the arrival_time component
PriorityKey_no_arrival(ps) == [p \in DOMAIN ps |-> <<ps[p].priority, p>>]

\* key=lambda p: (p.priority, p.arrival_time, p.pid)
PriorityKey(ps) == [p \in DOMAIN ps |-> <<ps[p].priority, ps[p].arrival_time, p>>]

\* if self.preemptive and self.running_process and self.ready_queue:
\*     if highest_priority.priority < self.running_process.priority:
Priority_preempts(s) ==
    /\ preemptive
    /\ s.running_process # None
    /\ s.ready_queue # <<>>
    /\ s.procs[Head(s.ready_queue)].priority < s.procs[s.running_process].priority

Priority_schedule(s, new_arrivals) ==
    LET s1 == AddArrivals(s, new_arrivals)
        s2 == [s1 EXCEPT !.ready_queue = Sort(@, PriorityKey(s1.procs))]
    IN  IF Priority_preempts(s2)
        THEN LET s3 == _change_state(s2, s2.running_process, "READY",
                                     "Preempted by higher priority process")
                 s4 == [s3 EXCEPT !.ready_queue =
                            Sort(Append(@, s3.running_process), PriorityKey(s3.procs))]
                 next_process == Head(s4.ready_queue)
                 s5 == [s4 EXCEPT !.ready_queue = Tail(@)]
                 s6 == context_switch(s5, s5.running_process, next_process,
                                      "Preemption (higher priority)")
             IN  [s6 EXCEPT !.running_process = next_process]
        ELSE DispatchIfIdle(s2, "Priority scheduling")

\* one pass through the body of the while loop of run_simulation
Priority_loop_body(s, idx0, idle0) ==
    LET new_arrivals == NewArrivals(idx0, s.current_time)
        idx == idx0 + Len(new_arrivals)
        s1 == Priority_schedule(s, new_arrivals)
    IN  IF s1.running_process # None
        THEN [self |-> ClearIfCompleted(execute_process(s1, s1.running_process, 1)),
              process_index |-> idx, idle_time |-> idle0]
        ELSE [self |-> IdleBranch(s1, idx),
              process_index |-> idx, idle_time |-> idle0 + IdleDuration(s1, idx)]

Priority_iteration ==
    /\ pc = "loop"
    /\ algorithm = "priority"
    /\ LoopCondition
    /\ CommitBody(Priority_loop_body(Self, process_index, idle_time))
    /\ UNCHANGED <<config, pc, processes, route_vars, memory_vars>>

\* ---- Round Robin ----
\* variant: a process that loses the CPU starts its burst over
RR_requeue_restart(s) ==
    LET p == s.running_process
        s1 == _change_state(s, p, "READY", "Time quantum expired")
    IN  [s1 EXCEPT !.procs[p].remaining_time = s1.procs[p].burst_time,
                   !.ready_queue = Append(@, p),
                   !.running_process = None]

\* variant: the preempted process is queued but stays the running process
RR_requeue_keeps_running(s) ==
    LET s1 == _change_state(s, s.running_process, "READY", "Time quantum expired")
    IN  [s1 EXCEPT !.ready_queue = Append(@, s.running_process)]

\* variant: the preempted process is put back at the head of the queue
RR_requeue_head(s) ==
    LET s1 == _change_state(s, s.running_process, "READY", "Time quantum expired")
    IN  [s1 EXCEPT !.ready_queue = <<s.running_process>> \o @,
                   !.running_process = None]

\* if self.running_process and self.current_quantum_remaining <= 0:
\*     if self.running_process.remaining_time > 0: ... self.ready_queue.append(...)
RR_requeue(s) ==
    LET s1 == _change_state(s, s.running_process, "READY", "Time quantum expired")
    IN  [s1 EXCEPT !.ready_queue = Append(@, s.running_process),
                   !.running_process = None]

\* variant: the quantum counts as expired only at exactly 0
RR_quantum_check_at_zero(s) ==
    IF /\ s.running_process # None
       /\ s.current_quantum_remaining = 0
       /\ s.procs[s.running_process].remaining_time > 0
    THEN RR_requeue(s)
    ELSE s

RR_quantum_check(s) ==
    IF /\ s.running_process # None
       /\ s.current_quantum_remaining <= 0
       /\ s.procs[s.running_process].remaining_time > 0
    THEN RR_requeue(s)
    ELSE s

\* variant: a dispatch keeps whatever quantum is left
RR_fresh_quantum_kept(s) == s

\* self.current_quantum_remaining = self.time_quantum on a dispatch
RR_fresh_quantum(s) == [s EXCEPT !.current_quantum_remaining = time_quantum]

RR_dispatch(s) ==
    IF s.running_process = None /\ s.ready_queue # <<>>
    THEN RR_fresh_quantum(DispatchIfIdle(s, "Round Robin scheduling"))
    ELSE s

\* variant: the quantum check is made before the new arrivals are admitted
RR_schedule_check_first(s, new_arrivals) ==
    RR_dispatch(AddArrivals(RR_quantum_check(s), new_arrivals))

RR_schedule(s, new_arrivals) ==
    RR_dispatch(RR_quantum_check(AddArrivals(s, new_arrivals)))

\* variant: the executed time is not taken off the quantum
RR_execute_process_no_count(s, p, duration) == execute_process(s, p, duration)

\* RoundRobinScheduler.execute_process: super().execute_process, then quantum -= duration
RR_execute_process(s, p, duration) ==
    [execute_process(s, p, duration) EXCEPT !.current_quantum_remaining = @ - duration]

\* completion in the RR loop also zeroes the quantum
RR_ClearIfCompleted(s) ==
    IF s.running_process # None /\ s.procs[s.running_process].remaining_time = 0
    THEN [s EXCEPT !.running_process = None, !.current_quantum_remaining = 0]
    ELSE s

\* one pass through the body of the while loop of run_simulation
RR_loop_body(s, idx0, idle0) ==
    LET new_arrivals == NewArrivals(idx0, s.current_time)
        idx == idx0 + Len(new_arrivals)
        s1 == RR_schedule(s, new_arrivals)
    IN  IF s1.running_process # None
        THEN [self |-> RR_ClearIfCompleted(RR_execute_process(s1, s1.running_process, 1)),
              process_index |-> idx, idle_time |-> idle0]
        ELSE [self |-> IdleBranch(s1, idx),
              process_index |-> idx, idle_time |-> idle0 + IdleDuration(s1, idx)]

RR_iteration ==
    /\ pc = "loop"
    /\ algorithm = "round_robin"
    /\ LoopCondition
    /\ CommitBody(RR_loop_body(Self, process_index, idle_time))
    /\ UNCHANGED <<config, pc, processes, route_vars, memory_vars>>

\* ---- memory/contiguous.py: ContiguousMemoryManager ----
\* bounds of the explored calls: requests of size -MaxNegativeSize..MaxSize for
\* processes 1..NumMemProcs on a memory of TotalMemory units; calls of allocate
\* that would leave more than MaxBlocks blocks are not explored
TotalMemory == 3
MaxSize == 4
MaxNegativeSize == 1
NumMemProcs == 2
MaxBlocks == 3

MemPIDs == 1..NumMemProcs
Sizes == (0 - MaxNegativeSize)..MaxSize
PositiveSizes == 1..MaxSize

\* AllocationAlgorithm
AllocationAlgorithm == {"first_fit", "best_fit", "worst_fit", "next_fit"}

\* MemoryBlock(start_address, size, is_allocated, process_id)
MemoryBlock(start_address, size, is_allocated, process_id) ==
    [start_address |-> start_address, size |-> size, is_allocated |-> is_allocated,
     process_id |-> process_id]

\* MemoryBlock.end_address
end_address(b) == b.start_address + b.size - 1

\* the block of the 0-based list index i of the list bs
BlockAt(bs, i) == bs[i + 1]

\* `not block.is_allocated and block.size >= size` at the valid indices of bs
Fits(bs, size) ==
    {i \in 0..(Len(bs) - 1) : ~BlockAt(bs, i).is_allocated /\ BlockAt(bs, i).size >= size}

MinOfSet(S) == CHOOSE x \in S : \A y \in S : x <= y

\* the outcome of a search: the index found (None when the search returns
\* None), the pointer it leaves, and whether it raised IndexError
Found(i, pointer) == [index |-> i, pointer |-> pointer, raised |-> FALSE]
NotFound(pointer) == [index |-> None, pointer |-> pointer, raised |-> FALSE]
Raised(pointer) == [index |-> None, pointer |-> pointer, raised |-> TRUE]

\* _first_fit: the first index that fits
first_fit(bs, pointer, size) ==
    IF Fits(bs, size) = {} THEN NotFound(pointer)
    ELSE Found(MinOfSet(Fits(bs, size)), pointer)

\* _best_fit: the first index among those of the smallest fitting size
best_fit(bs, pointer, size) ==
    LET F == Fits(bs, size)
        smallest == {i \in F : \A j \in F : BlockAt(bs, i).size <= BlockAt(bs, j).size}
    IN  IF F = {} THEN NotFound(pointer) ELSE Found(MinOfSet(smallest), pointer)

\* _worst_fit: the first index among those of the largest fitting size; the
\* running maximum starts at -1, so a block of size <= -1 is never taken
worst_fit(bs, pointer, size) ==
    LET F == {i \in Fits(bs, size) : BlockAt(bs, i).size > -1}
        largest == {i \in F : \A j \in F : BlockAt(bs, i).size >= BlockAt(bs, j).size}
    IN  IF F = {} THEN NotFound(pointer) ELSE Found(MinOfSet(largest), pointer)

\* the indices a `for i in range(lo, hi)` visits
Range(lo, hi) == lo..(hi - 1)

\* _next_fit: range(next_fit_pointer, len(blocks)), then range(0, next_fit_pointer).
\* The second loop reads self.blocks[i] for every i below the pointer: when no
\* valid index below the pointer fits and the pointer exceeds len(blocks), the
\* read at i = len(blocks) raises IndexError.
next_fit(bs, pointer, size) ==
    LET first == Fits(bs, size) \cap Range(pointer, Len(bs))
        second == Fits(bs, size) \cap Range(0, pointer)
    IN  IF first # {} THEN Found(MinOfSet(first), MinOfSet(first))
        ELSE IF second # {} THEN Found(MinOfSet(second), MinOfSet(second))
        ELSE IF pointer > Len(bs) THEN Raised(pointer)
        ELSE NotFound(pointer)

\* the dispatch on the algorithm at the head of allocate
FindBlock(algo, bs, pointer, size) ==
    CASE algo = "first_fit" -> first_fit(bs, pointer, size)
      [] algo = "best_fit" -> best_fit(bs, pointer, size)
      [] algo = "worst_fit" -> worst_fit(bs, pointer, size)
      [] algo = "next_fit" -> next_fit(bs, pointer, size)

\* self.blocks.insert(i + 1, b), i a 0-based index
InsertAfter(bs, i, b) == SubSeq(bs, 1, i + 1) \o <<b>> \o SubSeq(bs, i + 2, Len(bs))

\* self.blocks.pop(i + 1), i a 0-based index
PopAfter(bs, i) == SubSeq(bs, 1, i + 1) \o SubSeq(bs, i + 3, Len(bs))

\* allocate, lines 81-99: split the block when it is larger than the request,
\* then mark it allocated
SplitAndMark(bs, i, process_id, size) ==
    LET block == BlockAt(bs, i)
        split == IF block.size > size
                 THEN InsertAfter(bs, i, MemoryBlock(block.start_address + size,
                                                     block.size - size, FALSE, None))
                 ELSE bs
    IN  [split EXCEPT ![i + 1] = MemoryBlock(block.start_address, size, TRUE, process_id)]

\* _coalesce_blocks from index i on
RECURSIVE coalesce_from(_, _)
coalesce_from(bs, i) ==
    IF ~(i < Len(bs) - 1) THEN bs
    ELSE LET current == BlockAt(bs, i)
             next_block == BlockAt(bs, i + 1)
         IN  IF /\ ~current.is_allocated
                /\ ~next_block.is_allocated
                /\ end_address(current) + 1 = next_block.start_address
             THEN coalesce_from(
                      [PopAfter(bs, i) EXCEPT ![i + 1].size = current.size + next_block.size],
                      i)
             ELSE coalesce_from(bs, i + 1)

\* _coalesce_blocks
coalesce_blocks(bs) == coalesce_from(bs, 0)

\* the allocated blocks of process_id, by 0-based index
BlocksOf(bs, process_id) ==
    {i \in 0..(Len(bs) - 1) : BlockAt(bs, i).is_allocated
                              /\ BlockAt(bs, i).process_id = process_id}

\* what a call left behind: the call and its arguments, its outcome ("success",
\* the message of the failure result, or the exception raised), the index of
\* the block it worked on and that block as the call found it
MemoryResult(call, algo, process_id, size, outcome, block_index, found) ==
    [call |-> call, algorithm |-> algo, process_id |-> process_id, size |-> size,
     outcome |-> outcome, block_index |-> block_index, found |-> found]

NoBlock == MemoryBlock(None, 0, FALSE, None)

\* ContiguousMemoryManager.__init__(total_memory)
MemoryInit ==
    /\ blocks = << MemoryBlock(0, TotalMemory, FALSE, None) >>
    /\ next_fit_pointer = 0
    /\ memory_result = MemoryResult("none", "none", None, 0, "none", None, NoBlock)

scheduler_vars ==
    <<algorithm, preemptive, time_quantum, pc, processes, process_index,
      idle_time, procs, current_time, ready_queue, completed_processes,
      running_process, timeline, state_changes, context_switches,
      gantt_chart, current_quantum_remaining, iterations, route_vars>>

\* ContiguousMemoryManager.allocate(process_id, size, algorithm), size drawn from sizes
Allocate(sizes) ==
    /\ \E process_id \in MemPIDs, size \in sizes, algo \in AllocationAlgorithm :
          LET r == FindBlock(algo, blocks, next_fit_pointer, size)
          IN  /\ next_fit_pointer' = r.pointer
              /\ IF r.raised
                 THEN /\ blocks' = blocks
                      /\ memory_result' = MemoryResult("allocate", algo, process_id, size,
                                                       "IndexError", None, NoBlock)
                 ELSE IF r.index = None
                 THEN /\ blocks' = blocks
                      /\ memory_result' = MemoryResult("allocate", algo, process_id, size,
                                                       "No suitable block found", None,
                                                       NoBlock)
                 ELSE /\ blocks' = SplitAndMark(blocks, r.index, process_id, size)
                      /\ memory_result' = MemoryResult("allocate", algo, process_id, size,
                                                       "success", r.index,
                                                       BlockAt(blocks, r.index))
    /\ Len(blocks') <= MaxBlocks
    /\ UNCHANGED scheduler_vars

\* allocate called with any int the route lets through
allocate == Allocate(Sizes)

\* allocate called with a positive size
allocate_positive == Allocate(PositiveSizes)

\* ContiguousMemoryManager.deallocate(process_id)
deallocate ==
    /\ \E process_id \in MemPIDs :
          LET B == BlocksOf(blocks, process_id)
          IN  IF B = {}
              THEN /\ blocks' = blocks
                   /\ memory_result' = MemoryResult("deallocate", "none", process_id, 0,
                                                    "Process not found", None, NoBlock)
              ELSE LET i == MinOfSet(B)
                   IN  /\ blocks' = coalesce_blocks(
                                        [blocks EXCEPT ![i + 1].is_allocated = FALSE,
                                                       ![i + 1].process_id = None])
                       /\ memory_result' = MemoryResult("deallocate", "none", process_id, 0,
                                                        "success", i, BlockAt(blocks, i))
    /\ UNCHANGED <<next_fit_pointer, scheduler_vars>>

\* ---- run_simulation entry and exit (same in all four schedulers) ----
\* processes.sort(key=lambda p: (p.arrival_time, p.pid)); process_index = 0; idle_time = 0
run_simulation_start ==
    /\ pc = "init"
    /\ pc' = "loop"
    /\ processes' = Sort(processes, ArrivalKey(procs))
    /\ process_index' = 0
    /\ idle_time' = 0
    /\ UNCHANGED <<config, procs, current_time, ready_queue, completed_processes,
                   running_process, timeline, state_changes, context_switches,
                   gantt_chart, current_quantum_remaining, iterations, route_vars, memory_vars>>

run_simulation_exit ==
    /\ pc = "loop"
    /\ ~LoopCondition
    /\ pc' = "done"
    /\ UNCHANGED <<config, processes, process_index, idle_time, procs, current_time,
                   ready_queue, completed_processes, running_process, timeline,
                   state_changes, context_switches, gantt_chart,
                   current_quantum_remaining, iterations, route_vars, memory_vars>>

\* ---- initial states: a freshly constructed scheduler and a well-formed input ----
\* the caller's list, here in descending pid order so that the sort has work to do
InputList(ps) ==
    LET n == Cardinality(DOMAIN ps) IN [i \in 1..n |-> n + 1 - i]

BaseInit ==
    /\ pc = "init"
    /\ processes = InputList(procs)
    /\ process_index = 0
    /\ idle_time = 0
    /\ current_time = 0
    /\ ready_queue = <<>>
    /\ completed_processes = <<>>
    /\ running_process = None
    /\ timeline = <<>>
    /\ state_changes = <<>>
    /\ context_switches = <<>>
    /\ gantt_chart = <<>>
    /\ current_quantum_remaining = 0
    /\ iterations = 0
    /\ route = "none"
    /\ request = procs
    /\ request_list = processes
    /\ shared = FALSE
    /\ results = <<>>
    /\ MemoryInit

InitFCFS ==
    /\ algorithm = "fcfs"
    /\ preemptive = FALSE
    /\ time_quantum = 0
    /\ \E at \in [PIDs -> 0..MaxArrival], bt \in [PIDs -> 1..MaxBurst] :
          procs = [p \in PIDs |-> Process(p, at[p], bt[p], 0)]
    /\ BaseInit

InitSRTF ==
    /\ algorithm = "sjf"
    /\ preemptive = TRUE
    /\ time_quantum = 0
    /\ \E at \in [PIDs -> 0..MaxArrival], bt \in [PIDs -> 1..MaxBurst] :
          procs = [p \in PIDs |-> Process(p, at[p], bt[p], 0)]
    /\ BaseInit

InitRR ==
    /\ algorithm = "round_robin"
    /\ preemptive = FALSE
    /\ time_quantum \in 1..MaxQuantum
    /\ \E at \in [PIDs -> 0..MaxArrival], bt \in [PIDs -> 1..MaxBurstLow] :
          procs = [p \in PIDs |-> Process(p, at[p], bt[p], 0)]
    /\ BaseInit

\* every policy: the priority only varies where it is read, the quantum only under RR
Init ==
    /\ algorithm \in {"fcfs", "sjf", "priority", "round_robin"}
    /\ preemptive \in (IF algorithm \in {"sjf", "priority"} THEN BOOLEAN ELSE {FALSE})
    /\ time_quantum \in (IF algorithm = "round_robin" THEN 1..MaxQuantum ELSE {0})
    /\ \E at \in [PIDsAll -> 0..MaxArrival], bt \in [PIDsAll -> 1..MaxBurstLow],
          pr \in [PIDsAll -> (IF algorithm = "priority" THEN 0..MaxPriority ELSE {0})] :
          procs = [p \in PIDsAll |-> Process(p, at[p], bt[p], pr[p])]
    /\ BaseInit

\* every policy on a list of 0..NumProcsAll processes
InitShort ==
    /\ algorithm \in {"fcfs", "sjf", "priority", "round_robin"}
    /\ preemptive \in (IF algorithm \in {"sjf", "priority"} THEN BOOLEAN ELSE {FALSE})
    /\ time_quantum \in (IF algorithm = "round_robin" THEN 1..MaxQuantum ELSE {0})
    /\ \E n \in 0..NumProcsAll :
          \E at \in [1..n -> 0..MaxArrival], bt \in [1..n -> 1..MaxBurstLow],
             pr \in [1..n -> (IF algorithm = "priority" THEN 0..MaxPriority ELSE {0})] :
             procs = [p \in 1..n |-> Process(p, at[p], bt[p], pr[p])]
    /\ BaseInit

\* every policy on inputs with idle gaps of several units (default priorities)
InitIdle ==
    /\ algorithm \in {"fcfs", "sjf", "priority", "round_robin"}
    /\ preemptive \in (IF algorithm \in {"sjf", "priority"} THEN BOOLEAN ELSE {FALSE})
    /\ time_quantum \in (IF algorithm = "round_robin" THEN 1..MaxQuantum ELSE {0})
    /\ \E at \in [PIDsAll -> 0..MaxArrivalIdle], bt \in [PIDsAll -> 1..MaxBurstLow] :
          procs = [p \in PIDsAll |-> Process(p, at[p], bt[p], 0)]
    /\ BaseInit

\* SJFScheduler(preemptive=False) and PriorityScheduler(preemptive=False)
InitNonPreemptive ==
    /\ algorithm \in {"sjf", "priority"}
    /\ preemptive = FALSE
    /\ time_quantum = 0
    /\ \E at \in [PIDsAll -> 0..MaxArrival], bt \in [PIDsAll -> 1..MaxBurst],
          pr \in [PIDsAll -> (IF algorithm = "priority" THEN 0..MaxPriority ELSE {0})] :
          procs = [p \in PIDsAll |-> Process(p, at[p], bt[p], pr[p])]
    /\ BaseInit

\* PriorityScheduler in both modes; the first process has the shortest or the
\* longest burst, the others the longest
InitPriority ==
    /\ algorithm = "priority"
    /\ preemptive \in BOOLEAN
    /\ time_quantum = 0
    /\ \E at \in [PIDs -> 0..MaxArrival], bt \in [PIDs -> 1..MaxBurstLow],
          pr \in [PIDs -> 0..MaxPriority] :
          /\ bt[1] \in {1, MaxBurstLow}
          /\ \A p \in PIDs : p > 1 => bt[p] = MaxBurstLow
          /\ procs = [p \in PIDs |-> Process(p, at[p], bt[p], pr[p])]
    /\ BaseInit

\* SJFScheduler(preemptive=True) and PriorityScheduler(preemptive=True)
InitPreemptive ==
    /\ algorithm \in {"sjf", "priority"}
    /\ preemptive = TRUE
    /\ time_quantum = 0
    /\ \E at \in [PIDsAll -> 0..MaxArrival], bt \in [PIDsAll -> 1..MaxBurst],
          pr \in [PIDsAll -> (IF algorithm = "priority" THEN 0..MaxPriority ELSE {0})] :
          procs = [p \in PIDsAll |-> Process(p, at[p], bt[p], pr[p])]
    /\ BaseInit

\* RoundRobinScheduler(time_quantum) with a quantum that is not positive, and
\* with time_quantum = 1
NonPositiveQuanta == {-1, 0}

InitRRLow ==
    /\ algorithm = "round_robin"
    /\ preemptive = FALSE
    /\ time_quantum \in NonPositiveQuanta \cup {1}
    /\ \E at \in [PIDsAll -> 0..MaxArrival], bt \in [PIDsAll -> 1..MaxBurst] :
          procs = [p \in PIDsAll |-> Process(p, at[p], bt[p], 0)]
    /\ BaseInit

Next ==
    \/ run_simulation_start
    \/ FCFS_iteration
    \/ SJF_iteration
    \/ Priority_iteration
    \/ RR_iteration
    \/ run_simulation_exit

Spec == Init /\ [][Next]_vars

SpecShort == InitShort /\ [][Next]_vars

SpecIdle == InitIdle /\ [][Next]_vars

NextPriority == run_simulation_start \/ Priority_iteration \/ run_simulation_exit

SpecPriority == InitPriority /\ [][NextPriority]_vars

NextPreemptive ==
    run_simulation_start \/ SJF_iteration \/ Priority_iteration \/ run_simulation_exit

SpecPreemptive == InitPreemptive /\ [][NextPreemptive]_vars

NextNonPreemptive ==
    run_simulation_start \/ SJF_iteration \/ Priority_iteration \/ run_simulation_exit

SpecNonPreemptive == InitNonPreemptive /\ [][NextNonPreemptive]_vars

NextSRTF == run_simulation_start \/ SJF_iteration \/ run_simulation_exit

SpecSRTF == InitSRTF /\ [][NextSRTF]_vars

NextRR == run_simulation_start \/ RR_iteration \/ run_simulation_exit

SpecRR == InitRR /\ [][NextRR]_vars

SpecRRLow == InitRRLow /\ [][NextRR]_vars

\* a freshly constructed ContiguousMemoryManager and no scheduler run in progress
InitMemory ==
    /\ algorithm = "fcfs"
    /\ preemptive = FALSE
    /\ time_quantum = 0
    /\ procs = <<>>
    /\ BaseInit

NextMemory == allocate \/ deallocate

SpecMemory == InitMemory /\ [][NextMemory]_vars

\* the same manager when every request has a positive size
NextMemoryPositive == allocate_positive \/ deallocate

SpecMemoryPositive == InitMemory /\ [][NextMemoryPositive]_vars

\* FCFS on inputs built from the arrival and burst times of test_fcfs
TestArrivals == {0, 1, 2}
TestBursts == {3, 5, 8}

InitFCFSTest ==
    /\ algorithm = "fcfs"
    /\ preemptive = FALSE
    /\ time_quantum = 0
    /\ \E at \in [PIDs -> TestArrivals], bt \in [PIDs -> TestBursts] :
          procs = [p \in PIDs |-> Process(p, at[p], bt[p], 0)]
    /\ BaseInit

NextFCFS == run_simulation_start \/ FCFS_iteration \/ run_simulation_exit

SpecFCFS == InitFCFS /\ [][NextFCFS]_vars

SpecFCFSTest == InitFCFSTest /\ [][NextFCFS]_vars

\* SJF and SRTF on inputs built from the processes of test_sjf: every process
\* arrives at its time of the test or at 0, with one of the bursts of the test
TestSJF ==
    << [arrival_time |-> 0, burst_time |-> 7], [arrival_time |-> 2, burst_time |-> 4],
       [arrival_time |-> 4, burst_time |-> 1], [arrival_time |-> 5, burst_time |-> 4] >>

TestSJFArrivals == {TestSJF[p].arrival_time : p \in DOMAIN TestSJF}
TestSJFBursts == {TestSJF[p].burst_time : p \in DOMAIN TestSJF}

InitSJFTest ==
    /\ algorithm = "sjf"
    /\ preemptive \in BOOLEAN
    /\ time_quantum = 0
    /\ \E at \in [DOMAIN TestSJF -> TestSJFArrivals],
          bt \in [DOMAIN TestSJF -> TestSJFBursts] :
          /\ \A p \in DOMAIN TestSJF : at[p] \in {0, TestSJF[p].arrival_time}
          /\ procs = [p \in DOMAIN TestSJF |-> Process(p, at[p], bt[p], 0)]
    /\ BaseInit

SpecSJFTest == InitSJFTest /\ [][NextSRTF]_vars

\* ---- routes/scheduler_routes.py: POST /run and POST /compare ----
\* a scheduler as its constructor leaves it, about to run on the objects objs
FreshScheduler(objs) ==
    [procs |-> objs, current_time |-> 0, ready_queue |-> <<>>,
     completed_processes |-> <<>>, running_process |-> None, timeline |-> <<>>,
     state_changes |-> <<>>, context_switches |-> <<>>, gantt_chart |-> <<>>,
     current_quantum_remaining |-> 0]

\* request.processes as the caller sees it now: its own objects and list,
\* which are the scheduler's when these are shared
CallerProcesses == IF shared THEN procs ELSE request
CallerList == IF shared THEN processes ELSE request_list

\* variant: the caller's list is handed to run_simulation as it is
CopyProcesses_none(caller) == [objs |-> caller, shared |-> TRUE]

\* [copy.deepcopy(p) for p in processes]: new objects with equal fields
CopyProcesses(caller) == [objs |-> caller, shared |-> FALSE]

\* copy the input, take a fresh scheduler with configuration cfg, call run_simulation
StartRun(cfg) ==
    /\ LET c == CopyProcesses(CallerProcesses)
       IN  /\ Commit(FreshScheduler(c.objs))
           /\ shared' = c.shared
    /\ processes' = CallerList
    /\ algorithm' = cfg.algorithm
    /\ preemptive' = cfg.preemptive
    /\ time_quantum' = cfg.time_quantum
    /\ pc' = "init"
    /\ process_index' = 0
    /\ idle_time' = 0
    /\ iterations' = 0
    /\ UNCHANGED <<route, request, request_list, results, memory_vars>>

\* POST /run up to scheduler.run_simulation(processes)
run_route ==
    /\ pc = "request"
    /\ route = "run"
    /\ StartRun([algorithm |-> algorithm, preemptive |-> preemptive,
                 time_quantum |-> time_quantum])

\* the algorithms list of compare_algorithms
CompareAlgorithms ==
    << [name |-> "FCFS", algorithm |-> "fcfs", preemptive |-> FALSE, time_quantum |-> 0],
       [name |-> "SJF", algorithm |-> "sjf", preemptive |-> FALSE, time_quantum |-> 0],
       [name |-> "SRTF", algorithm |-> "sjf", preemptive |-> TRUE, time_quantum |-> 0],
       [name |-> "Priority", algorithm |-> "priority", preemptive |-> FALSE, time_quantum |-> 0],
       [name |-> "Round Robin", algorithm |-> "round_robin", preemptive |-> FALSE,
        time_quantum |-> 4] >>

\* results[name] = {"metrics", "total_time", "gantt_chart"}
ResultOf(name, s) ==
    [name |-> name, metrics |-> calculate_metrics(s), total_time |-> s.current_time,
     gantt_chart |-> s.gantt_chart]

\* one round of `for name, scheduler in algorithms` up to run_simulation
compare_start_run ==
    /\ pc = "request"
    /\ route = "compare"
    /\ Len(results) < Len(CompareAlgorithms)
    /\ StartRun(CompareAlgorithms[Len(results) + 1])

\* the rest of the round: calculate_metrics and results[name] = ...
compare_collect ==
    /\ pc = "done"
    /\ route = "compare"
    /\ results' = Append(results, ResultOf(CompareAlgorithms[Len(results) + 1].name, Self))
    /\ pc' = IF Len(results') < Len(CompareAlgorithms) THEN "request" ELSE "returned"
    /\ UNCHANGED <<config, processes, process_index, idle_time, procs, current_time,
                   ready_queue, completed_processes, running_process, timeline,
                   state_changes, context_switches, gantt_chart,
                   current_quantum_remaining, iterations, route, request,
                   request_list, shared, memory_vars>>

\* a request has been received by one of the two routes; the priority varies
\* where it is read, and for the first process only (the others keep the default)
InitRoutes ==
    /\ route \in {"run", "compare"}
    /\ algorithm \in (IF route = "run" THEN {"fcfs", "sjf", "priority", "round_robin"}
                      ELSE {"fcfs"})
    /\ preemptive \in (IF algorithm \in {"sjf", "priority"} THEN BOOLEAN ELSE {FALSE})
    /\ time_quantum \in (IF algorithm = "round_robin" THEN 1..MaxQuantum ELSE {0})
    /\ \E at \in [PIDsAll -> 0..MaxArrival], bt \in [PIDsAll -> 1..MaxBurstLow],
          pr \in [PIDsAll -> (IF algorithm = "priority" \/ route = "compare"
                              THEN 0..MaxPriority ELSE {0})] :
          /\ \A p \in PIDsAll : p > 1 => pr[p] = 0
          /\ request = [p \in PIDsAll |-> Process(p, at[p], bt[p], pr[p])]
    /\ request_list = InputList(request)
    /\ shared = FALSE
    /\ results = <<>>
    /\ pc = "request"
    /\ procs = request
    /\ processes = request_list
    /\ process_index = 0
    /\ idle_time = 0
    /\ current_time = 0
    /\ ready_queue = <<>>
    /\ completed_processes = <<>>
    /\ running_process = None
    /\ timeline = <<>>
    /\ state_changes = <<>>
    /\ context_switches = <<>>
    /\ gantt_chart = <<>>
    /\ current_quantum_remaining = 0
    /\ iterations = 0
    /\ MemoryInit

NextRoutes == run_route \/ compare_start_run \/ compare_collect \/ Next

SpecRoutes == InitRoutes /\ [][NextRoutes]_vars

\* ---- reading the logs ----
MinOf(S) == CHOOSE x \in S : \A y \in S : x <= y
MaxOf(S) == CHOOSE x \in S : \A y \in S : y <= x

\* indices of the Gantt entries of process p
GanttOf(p) == {i \in DOMAIN gantt_chart : gantt_chart[i].pid = p}

\* total duration of the Gantt entries 1..k of p whose start is in lo..(hi - 1)
RECURSIVE GanttSumRange(_, _, _, _)
GanttSumRange(p, lo, hi, k) ==
    IF k = 0 THEN 0
    ELSE (IF /\ gantt_chart[k].pid = p
             /\ gantt_chart[k].start >= lo
             /\ gantt_chart[k].start < hi
          THEN gantt_chart[k].duration ELSE 0)
         + GanttSumRange(p, lo, hi, k - 1)

\* later than every start time of a run
Horizon == current_time + 1

GanttSum(p) == GanttSumRange(p, 0, Horizon, Len(gantt_chart))

\* CPU time p has received in Gantt entries that start before time t
GanttSumBefore(p, t) == GanttSumRange(p, 0, t, Len(gantt_chart))

LastGanttEnd(p) == gantt_chart[MaxOf(GanttOf(p))].end

\* indices of the state-change records of p, and of its READY->RUNNING records
RecordsOf(p) == {i \in DOMAIN state_changes : state_changes[i].pid = p}
Dispatches(p) == {i \in RecordsOf(p) : state_changes[i].to_state = "RUNNING"}

\* the state the log says p is in after its records below index i
RECURSIVE LoggedStateBefore(_, _)
LoggedStateBefore(p, i) ==
    IF i <= 1 THEN "NEW"
    ELSE IF state_changes[i - 1].pid = p THEN state_changes[i - 1].to_state
         ELSE LoggedStateBefore(p, i - 1)

LoggedState(p) == LoggedStateBefore(p, Len(state_changes) + 1)

Count(seq, x) == Cardinality({i \in DOMAIN seq : seq[i] = x})

\* C1: every completed process has completion_time = the end of the tick in
\* which its remaining_time reached 0 (the end of its last Gantt entry, by which
\* it has received its whole burst), turnaround_time = completion_time -
\* arrival_time and wait_time = turnaround_time - burst_time, under every policy.
C1_MetricsExact ==
    \A i \in DOMAIN completed_processes :
        LET r == procs[completed_processes[i]]
        IN  /\ r.remaining_time = 0
            /\ GanttSum(r.pid) = r.burst_time
            /\ r.completion_time = LastGanttEnd(r.pid)
            /\ r.turnaround_time = r.completion_time - r.arrival_time
            /\ r.wait_time = r.turnaround_time - r.burst_time

\* a process that was preempted after its first dispatch has completed and waited
C1_Witness ==
    /\ pc = "done"
    /\ \E p \in DOMAIN procs : /\ procs[p].wait_time > 0
                               /\ procs[p].response_time < procs[p].wait_time

\* C2: start_time and response_time are unset until the first READY->RUNNING
\* record of the process, from then on equal the time of that record and that
\* time minus arrival_time, and no later step (re-dispatch after preemption or
\* quantum expiry) changes them.
C2_StartInv ==
    \A p \in DOMAIN procs :
        IF Dispatches(p) = {}
        THEN procs[p].start_time = None /\ procs[p].response_time = None
        ELSE LET first == state_changes[MinOf(Dispatches(p))]
             IN  /\ first.from_state = "READY"
                 /\ procs[p].start_time = first.time
                 /\ procs[p].response_time = first.time - procs[p].arrival_time

C2_ResponseSetOnce ==
    /\ []C2_StartInv
    /\ [][\A p \in DOMAIN procs :
             procs[p].start_time # None =>
                 /\ procs'[p].start_time = procs[p].start_time
                 /\ procs'[p].response_time = procs[p].response_time]_vars

\* a process has been dispatched a second time, later than its start_time
C2_Witness ==
    \E p \in DOMAIN procs :
        /\ Cardinality(Dispatches(p)) >= 2
        /\ state_changes[MaxOf(Dispatches(p))].time > procs[p].start_time

\* C3: when run_simulation has finished, the durations of the Gantt entries of
\* every input process add up to its burst_time.
C3_GanttSumIsBurst ==
    pc = "done" => \A p \in DOMAIN procs : GanttSum(p) = procs[p].burst_time

\* a finished run in which a process of burst >= 2 ran in two separate spans
C3_Witness ==
    /\ pc = "done"
    /\ \E p \in DOMAIN procs :
          \E i, j \in GanttOf(p) : i < j /\ gantt_chart[i].end < gantt_chart[j].start

\* C4: run_simulation terminates: every pass through the while body strictly
\* decreases a natural-number variant (so the loop cannot spin);
\* the loop is left exactly when no process is unarrived, ready or running, and
\* then every input process is TERMINATED and in completed_processes once.
RECURSIVE SumRemaining(_, _)
SumRemaining(ps, S) ==
    IF S = {} THEN 0
    ELSE LET x == CHOOSE y \in S : TRUE
         IN  ps[x].remaining_time + SumRemaining(ps, S \ {x})

VariantOf(s, idx) ==
    2 * SumRemaining(s.procs, DOMAIN s.procs)
    + (IF idx < Len(processes)
          /\ s.procs[processes[idx + 1]].arrival_time > s.current_time
       THEN 1 ELSE 0)

Variant == VariantOf(Self, process_index)

AllCompleted ==
    \A p \in DOMAIN procs : /\ procs[p].state = "TERMINATED"
                            /\ Count(completed_processes, p) = 1

C4_Termination ==
    /\ [](Variant \in Nat)
    /\ [][iterations' # iterations => Variant' < Variant]_vars
    /\ [][pc = "loop" => (pc' = "done" <=> ~LoopCondition)]_vars
    /\ [](pc = "done" => ~LoopCondition /\ AllCompleted)

\* a finished run that had to fast-forward over an idle gap
C4_Witness ==
    /\ pc = "done"
    /\ idle_time > 0
    /\ Len(completed_processes) = Len(processes)

\* C5: the state-change log only holds NEW->READY, READY->RUNNING,
\* RUNNING->READY and RUNNING->TERMINATED records, each with from_state equal to
\* the state the process was in; the state of every process is the one its last
\* record says; no process is WAITING; each process has at most one TERMINATED
\* record, none after it, and is in completed_processes once per such record;
\* when the run has finished each process has exactly one.
AllowedTransitions ==
    {<<"NEW", "READY">>, <<"READY", "RUNNING">>,
     <<"RUNNING", "READY">>, <<"RUNNING", "TERMINATED">>}

\* replays the records i.. on the states st: every record is an allowed
\* transition out of the state its process is in, and the replay ends in the
\* states the processes have now
RECURSIVE ReplayOK(_, _)
ReplayOK(i, st) ==
    IF i > Len(state_changes) THEN st = [p \in DOMAIN procs |-> procs[p].state]
    ELSE LET c == state_changes[i]
         IN  /\ c.from_state = st[c.pid]
             /\ <<c.from_state, c.to_state>> \in AllowedTransitions
             /\ ReplayOK(i + 1, [st EXCEPT ![c.pid] = c.to_state])

C5_StateMachine ==
    /\ ReplayOK(1, [p \in DOMAIN procs |-> "NEW"])
    /\ \A p \in DOMAIN procs :
          LET terminations == {i \in RecordsOf(p) : state_changes[i].to_state = "TERMINATED"}
          IN  /\ procs[p].state # "WAITING"
              /\ Cardinality(terminations) <= 1
              /\ Count(completed_processes, p) = Cardinality(terminations)
              /\ (procs[p].state = "TERMINATED") = (terminations # {})
              /\ pc = "done" => Cardinality(terminations) = 1

\* a finished priority run in which a process went RUNNING->READY
C5_Witness ==
    /\ pc = "done"
    /\ algorithm = "priority"
    /\ \E i \in DOMAIN state_changes :
          state_changes[i].from_state = "RUNNING" /\ state_changes[i].to_state = "READY"

\* ---- more log reading ----
\* strict order of the (arrival_time, pid) keys
ArrivesBefore(a, b) ==
    \/ procs[a].arrival_time < procs[b].arrival_time
    \/ procs[a].arrival_time = procs[b].arrival_time /\ a < b

\* READY->RUNNING records of all processes
AllDispatches == {i \in DOMAIN state_changes : state_changes[i].to_state = "RUNNING"}

Requeues ==
    {i \in DOMAIN state_changes : /\ state_changes[i].from_state = "RUNNING"
                                  /\ state_changes[i].to_state = "READY"}

Admissions ==
    {i \in DOMAIN state_changes : /\ state_changes[i].from_state = "NEW"
                                  /\ state_changes[i].to_state = "READY"}

\* remaining_time of p at the beginning of the tick at time t
RemainingAt(p, t) == procs[p].burst_time - GanttSumBefore(p, t)

\* C6: under FCFS processes are dispatched, and complete, in strictly ascending
\* (arrival_time, pid) order; no RUNNING->READY record exists; and a process
\* that has run but not finished is the running process and gets the very next
\* Gantt entry, starting where its previous one ended.
C6_FCFSOrder ==
    /\ \A i, j \in DOMAIN completed_processes :
          i < j => ArrivesBefore(completed_processes[i], completed_processes[j])
    /\ \A i, j \in AllDispatches :
          i < j => ArrivesBefore(state_changes[i].pid, state_changes[j].pid)
    /\ Requeues = {}
    /\ \A k \in DOMAIN gantt_chart :
          LET p == gantt_chart[k].pid
          IN  GanttSumRange(p, 0, Horizon, k) < procs[p].burst_time =>
                  IF k = Len(gantt_chart)
                  THEN running_process = p /\ current_time = gantt_chart[k].end
                  ELSE /\ gantt_chart[k + 1].pid = p
                       /\ gantt_chart[k + 1].start = gantt_chart[k].end

\* a finished FCFS run with two processes of equal arrival_time and a process
\* that arrived while another one held the CPU
C6_Witness ==
    /\ pc = "done"
    /\ algorithm = "fcfs"
    /\ \E p, q \in DOMAIN procs : p # q /\ procs[p].arrival_time = procs[q].arrival_time
    /\ \E p \in DOMAIN procs : /\ procs[p].start_time > procs[p].arrival_time
                               /\ procs[p].burst_time > 1

\* C7: FCFS on P1(0,5), P2(1,3), P3(2,8) ends at current_time 16 with wait
\* times 0, 4, 6 and turnaround times 5, 7, 14, and calculate_metrics reports
\* the averages 3.33 and 8.67.
TestFCFSInput ==
    /\ algorithm = "fcfs"
    /\ DOMAIN procs = {1, 2, 3}
    /\ procs[1].arrival_time = 0 /\ procs[1].burst_time = 5
    /\ procs[2].arrival_time = 1 /\ procs[2].burst_time = 3
    /\ procs[3].arrival_time = 2 /\ procs[3].burst_time = 8

C7_FCFSExample ==
    (pc = "done" /\ TestFCFSInput) =>
        /\ current_time = 16
        /\ procs[1].wait_time = 0 /\ procs[2].wait_time = 4 /\ procs[3].wait_time = 6
        /\ procs[1].turnaround_time = 5
        /\ procs[2].turnaround_time = 7
        /\ procs[3].turnaround_time = 14
        /\ completed_processes = <<1, 2, 3>>
        /\ calculate_metrics(Self).average_waiting_time = 333
        /\ calculate_metrics(Self).average_turnaround_time = 867

\* the run of test_fcfs has finished
C7_Witness == pc = "done" /\ TestFCFSInput /\ Len(gantt_chart) = 16

\* C8: in SRTF, if a process is admitted at time t with a burst strictly
\* smaller than the remaining_time of the process that held the CPU up to t and
\* is unfinished, then that process is moved RUNNING->READY at t and the Gantt
\* entry starting at t belongs to another process.
C8_SRTFPreemptsAtArrival ==
    \A i \in Admissions :
        LET a == state_changes[i].pid
            t == state_changes[i].time
        IN  \A k \in DOMAIN gantt_chart :
                LET r == gantt_chart[k].pid
                IN  (/\ gantt_chart[k].end = t
                     /\ RemainingAt(r, t) > 0
                     /\ procs[a].burst_time < RemainingAt(r, t)) =>
                        /\ \E j \in Requeues : /\ state_changes[j].pid = r
                                               /\ state_changes[j].time = t
                        /\ \E m \in DOMAIN gantt_chart : /\ gantt_chart[m].start = t
                                                         /\ gantt_chart[m].pid # r
                        /\ \A m \in DOMAIN gantt_chart :
                              gantt_chart[m].start = t => gantt_chart[m].pid # r

\* a process was preempted at the time a strictly shorter one was admitted
C8_Witness ==
    /\ algorithm = "sjf" /\ preemptive
    /\ \E j \in Requeues : \E i \in Admissions :
          /\ state_changes[i].time = state_changes[j].time
          /\ state_changes[i].time > 0
          /\ procs[state_changes[i].pid].burst_time
                 < RemainingAt(state_changes[j].pid, state_changes[j].time)

\* C9: in Round-Robin every RUNNING->READY record has the reason "Time quantum
\* expired", is made when the process has run a whole quantum since its dispatch
\* and has remaining_time > 0, and every process that was READY at that moment
\* is dispatched before the preempted process is dispatched again; a dispatched
\* process with more than a quantum of work left is preempted that way; and the
\* ready queue lists its processes in the order in which they became READY.
LastRecord(p) == MaxOf(RecordsOf(p))

C9_RequeueAtTail ==
    /\ \A i \in Requeues :
          LET p == state_changes[i].pid
              t == state_changes[i].time
              d == MaxOf({j \in Dispatches(p) : j < i})
              waiting == {q \in DOMAIN procs \ {p} : LoggedStateBefore(q, i) = "READY"}
              later == {j \in Dispatches(p) : j > i}
          IN  /\ state_changes[i].reason = "Time quantum expired"
              /\ t - state_changes[d].time = time_quantum
              /\ RemainingAt(p, t) > 0
              /\ later # {} =>
                    \A q \in waiting : \E j \in Dispatches(q) : i < j /\ j < MinOf(later)
    /\ \A d \in AllDispatches :
          LET p == state_changes[d].pid
              t == state_changes[d].time
          IN  (/\ RemainingAt(p, t) > time_quantum
               /\ \E k \in DOMAIN gantt_chart : gantt_chart[k].start >= t + time_quantum) =>
                  \E i \in Requeues : /\ state_changes[i].pid = p
                                      /\ state_changes[i].time = t + time_quantum
                                      /\ i = MinOf({j \in RecordsOf(p) : j > d})
    /\ \A x, y \in DOMAIN ready_queue :
          x < y => LastRecord(ready_queue[x]) < LastRecord(ready_queue[y])

\* a preempted process found other processes READY and has since run again
C9_Witness ==
    \E i \in Requeues :
        LET p == state_changes[i].pid
        IN  /\ \E q \in DOMAIN procs \ {p} : LoggedStateBefore(q, i) = "READY"
            /\ \E j \in Dispatches(p) : j > i

\* C10: in Round-Robin no Gantt entry is longer than time_quantum, and between
\* a dispatch and the next dispatch the dispatched process executes exactly
\* min(time_quantum, its remaining_time at the dispatch) ticks (at most that
\* many while the slice is still in progress).
TicksOfDispatch(d) ==
    LET p == state_changes[d].pid
        t == state_changes[d].time
        later == {j \in AllDispatches : j > d}
        until == IF later = {} THEN Horizon ELSE state_changes[MinOf(later)].time
    IN  GanttSumRange(p, t, until, Len(gantt_chart))

QuotaOfDispatch(d) ==
    Min(time_quantum, RemainingAt(state_changes[d].pid, state_changes[d].time))

C10_FreshQuantum ==
    /\ \A k \in DOMAIN gantt_chart : gantt_chart[k].duration <= time_quantum
    /\ \A d \in AllDispatches :
          IF pc = "done" \/ \E j \in AllDispatches : j > d
          THEN TicksOfDispatch(d) = QuotaOfDispatch(d)
          ELSE TicksOfDispatch(d) <= QuotaOfDispatch(d)

\* a process got a whole quantum of at least 2 right after the previous process
\* had finished with part of its quantum unused
C10_Witness ==
    /\ time_quantum >= 2
    /\ \E d0, d \in AllDispatches :
          /\ d0 < d
          /\ ~\E j \in AllDispatches : d0 < j /\ j < d
          /\ state_changes[d0].pid # state_changes[d].pid
          /\ TicksOfDispatch(d0) < time_quantum
          /\ state_changes[d].time = state_changes[d0].time + TicksOfDispatch(d0)
          /\ \E j \in AllDispatches : j > d
          /\ TicksOfDispatch(d) = time_quantum

C12_NoSwitchOnReselect ==
    \A i \in Requeues :
        (/\ i + 1 \in DOMAIN state_changes
         /\ state_changes[i + 1].pid = state_changes[i].pid
         /\ state_changes[i + 1].to_state = "RUNNING") =>
            ~\E c \in DOMAIN context_switches :
                /\ context_switches[c].time = state_changes[i].time
                /\ context_switches[c].to_pid = state_changes[i].pid

\* C13: under every policy the context-switch log is empty while the Gantt log
\* and completed_processes are empty, the first dispatch of a run records no
\* context-switch event, and every later dispatch of a process other than the
\* one of the latest Gantt entry records exactly one context-switch event at
\* the dispatch time, to the dispatched process.
SwitchesAt(t) == {c \in DOMAIN context_switches : context_switches[c].time = t}

C13_SwitchOnDispatch ==
    /\ (gantt_chart = <<>> /\ completed_processes = <<>>) => context_switches = <<>>
    /\ \A d \in AllDispatches :
          LET p == state_changes[d].pid
              t == state_changes[d].time
              prior == {k \in DOMAIN gantt_chart : gantt_chart[k].start < t}
          IN  IF prior = {} THEN SwitchesAt(t) = {}
              ELSE gantt_chart[MaxOf(prior)].pid # p =>
                      /\ Cardinality(SwitchesAt(t)) = 1
                      /\ \A c \in SwitchesAt(t) : context_switches[c].to_pid = p

\* a finished run with a hand-off after a completion and one by preemption
C13_Witness ==
    /\ pc = "done"
    /\ \E c \in DOMAIN context_switches : context_switches[c].from_pid = None
    /\ \E c \in DOMAIN context_switches : context_switches[c].from_pid # None

\* C14: current_time never decreases during a run, under every policy,
\* including across idle fast-forwards.
C14_TimeMonotonic == [][current_time' >= current_time]_vars

\* the clock was fast-forwarded over an idle gap and ticks were executed after it
C14_Witness ==
    /\ idle_time > 0
    /\ gantt_chart # <<>>
    /\ gantt_chart[Len(gantt_chart)].end = current_time
    /\ current_time > idle_time

\* C15 (as stated): current_time changes only inside execute_process: it is 0
\* before the first call, each call starts at the time the previous one ended,
\* and after the last call it is the end of the last Gantt entry.
C15_OnlyExecuteAdvances ==
    /\ gantt_chart = <<>> => current_time = 0
    /\ gantt_chart # <<>> =>
          /\ gantt_chart[1].start = 0
          /\ gantt_chart[Len(gantt_chart)].end = current_time
    /\ \A k \in 1..(Len(gantt_chart) - 1) :
          gantt_chart[k + 1].start = gantt_chart[k].end

\* C15 (amended): current_time changes only in execute_process, by the duration
\* of the Gantt entry it appends, and in the idle branch of run_simulation,
\* which with no process running or ready sets it to the arrival time of the
\* next unarrived process; nothing else changes it.
C15_TimeAdvances ==
    [][current_time' # current_time =>
          \/ /\ Len(gantt_chart') = Len(gantt_chart) + 1
             /\ SubSeq(gantt_chart', 1, Len(gantt_chart)) = gantt_chart
             /\ gantt_chart'[Len(gantt_chart')].start = current_time
             /\ gantt_chart'[Len(gantt_chart')].end = current_time'
             /\ gantt_chart'[Len(gantt_chart')].duration = current_time' - current_time
             /\ idle_time' = idle_time
          \/ /\ gantt_chart' = gantt_chart
             /\ running_process' = None
             /\ ready_queue' = <<>>
             /\ process_index' < Len(processes)
             /\ current_time' = procs[processes[process_index' + 1]].arrival_time
             /\ idle_time' - idle_time = current_time' - current_time]_vars

\* a finished run whose first tick was executed after an idle gap
C15_Witness ==
    /\ pc = "done"
    /\ idle_time > 0
    /\ gantt_chart # <<>>
    /\ gantt_chart[1].start = idle_time

\* C17: with an empty process list run_simulation never enters its loop body
\* under any policy: current_time stays 0, nothing is completed, the Gantt,
\* state-change and context-switch logs stay empty, and calculate_metrics
\* returns the all-zero metrics (its divisions are not reached).
ZeroMetrics ==
    [average_waiting_time |-> 0, average_turnaround_time |-> 0,
     average_response_time |-> 0, cpu_utilization |-> 0, throughput |-> 0,
     total_context_switches |-> 0]

C17_EmptyInput ==
    Len(processes) = 0 =>
        /\ pc = "loop" => ~LoopCondition
        /\ iterations = 0
        /\ current_time = 0
        /\ completed_processes = <<>>
        /\ gantt_chart = <<>>
        /\ state_changes = <<>>
        /\ context_switches = <<>>
        /\ calculate_metrics(Self) = ZeroMetrics

\* a run on the empty list has ended
C17_Witness == pc = "done" /\ Len(processes) = 0

\* C18: the caller's processes are never mutated by a run: on /run and /compare
\* every process of the request keeps state NEW, remaining_time = burst_time
\* and all its other fields, and the caller's list keeps its order; in
\* /compare each finished run has the metrics, total_time and Gantt chart that
\* its algorithm produces on a fresh scheduler and the request as it was sent,
\* and that is what is stored in results, in the order of the algorithms list.
LoopBodyOf(s, idx, idle) ==
    CASE algorithm = "fcfs" -> FCFS_loop_body(s, idx, idle)
      [] algorithm = "sjf" -> SJF_loop_body(s, idx, idle)
      [] algorithm = "priority" -> Priority_loop_body(s, idx, idle)
      [] algorithm = "round_robin" -> RR_loop_body(s, idx, idle)

\* the scheduler at the end of run_simulation started from s
RECURSIVE RunToEnd(_, _, _)
RunToEnd(s, idx, idle) ==
    IF idx < Len(processes) \/ s.running_process # None \/ s.ready_queue # <<>>
    THEN LET r == LoopBodyOf(s, idx, idle)
         IN  RunToEnd(r.self, r.process_index, r.idle_time)
    ELSE s

RunAlone == RunToEnd(FreshScheduler(request), 0, 0)

C18_CallerUntouchedInv ==
    /\ \A p \in DOMAIN request :
          /\ CallerProcesses[p].state = "NEW"
          /\ CallerProcesses[p].remaining_time = CallerProcesses[p].burst_time
          /\ CallerProcesses[p] = request[p]
    /\ CallerList = request_list
    /\ (route = "compare" /\ pc = "done") => ResultOf("", Self) = ResultOf("", RunAlone)
    /\ \A k \in DOMAIN results : results[k].name = CompareAlgorithms[k].name

C18_CallerUntouched ==
    /\ []C18_CallerUntouchedInv
    /\ [][results' # results =>
             /\ pc = "done"
             /\ results' = Append(results, ResultOf(CompareAlgorithms[Len(results) + 1].name,
                                                    Self))]_vars

\* /compare has returned five results, two of them with different Gantt charts
C18_Witness ==
    /\ route = "compare"
    /\ pc = "returned"
    /\ Len(results) = 5
    /\ results[1].gantt_chart # results[2].gantt_chart

\* C19: remaining_time changes only in a tick executed by the process, which
\* is RUNNING in that tick, and then drops by exactly the duration of the
\* Gantt entry of the tick; it never increases and is never below 0; a process
\* that is NEW, READY or TERMINATED throughout a tick keeps its remaining_time
\* (NEW: the whole burst, TERMINATED: 0).
C19_RemainingInv ==
    \A p \in DOMAIN procs :
        /\ procs[p].remaining_time >= 0
        /\ procs[p].remaining_time = procs[p].burst_time - GanttSum(p)
        /\ procs[p].state = "NEW" => procs[p].remaining_time = procs[p].burst_time
        /\ procs[p].state = "TERMINATED" => procs[p].remaining_time = 0

\* p executed the tick of this step: it got the new Gantt entry and was RUNNING
\* when the entry was made (a TERMINATED p was moved there from RUNNING right
\* after it)
ExecutedTick(p) ==
    /\ Len(gantt_chart') = Len(gantt_chart) + 1
    /\ gantt_chart'[Len(gantt_chart')].pid = p
    /\ \/ procs'[p].state = "RUNNING"
       \/ /\ procs'[p].state = "TERMINATED"
          /\ state_changes'[Len(state_changes')] =
                [time |-> current_time', pid |-> p, from_state |-> "RUNNING",
                 to_state |-> "TERMINATED", reason |-> "Process completed execution"]

C19_RemainingOnlyWhileRunning ==
    /\ []C19_RemainingInv
    /\ [][pc = "loop" =>
            \A p \in DOMAIN procs :
                /\ procs'[p].remaining_time <= procs[p].remaining_time
                /\ procs'[p].remaining_time # procs[p].remaining_time =>
                      /\ ExecutedTick(p)
                      /\ procs[p].remaining_time - procs'[p].remaining_time
                            = gantt_chart'[Len(gantt_chart')].duration
                /\ ~ExecutedTick(p) =>
                      procs'[p].remaining_time = procs[p].remaining_time]_vars

\* a READY process kept its remaining work while another one was running
C19_Witness ==
    \E p, q \in DOMAIN procs :
        /\ procs[p].state = "READY"
        /\ procs[p].remaining_time > 0
        /\ procs[p].remaining_time < procs[p].burst_time
        /\ procs[q].state = "RUNNING"
        /\ procs[q].remaining_time < procs[q].burst_time

\* C20: in the timeline, the state-change log and the context-switch log the
\* time field never decreases from one entry to the next, and every Gantt
\* entry starts at or after the end of the entry before it.
TimeOrdered(log) == \A i \in 1..(Len(log) - 1) : log[i].time <= log[i + 1].time

C20_LogsOrdered ==
    /\ TimeOrdered(timeline)
    /\ TimeOrdered(state_changes)
    /\ TimeOrdered(context_switches)
    /\ \A k \in 1..(Len(gantt_chart) - 1) :
          gantt_chart[k + 1].start >= gantt_chart[k].end

\* a finished run with several entries in every log, some with equal times and
\* some with later ones
C20_Witness ==
    /\ pc = "done"
    /\ Len(context_switches) >= 2
    /\ Len(gantt_chart) >= 2
    /\ \E i \in 1..(Len(state_changes) - 1) :
          state_changes[i].time = state_changes[i + 1].time
    /\ \E i \in 1..(Len(timeline) - 1) : timeline[i].time < timeline[i + 1].time

\* C21: within one tick at time t the records are made in the order admission
\* (NEW->READY of every process with arrival_time <= t), preemption or quantum
\* expiry (RUNNING->READY), dispatch (READY->RUNNING) with the Gantt entry that
\* starts at t, and completion (RUNNING->TERMINATED at t + 1, right after that
\* Gantt entry and before every admission of tick t + 1).
TickRank(c) ==
    CASE c.to_state = "TERMINATED" -> 0
      [] c.from_state = "NEW" -> 1
      [] c.from_state = "RUNNING" /\ c.to_state = "READY" -> 2
      [] OTHER -> 3

C21_TickOrder ==
    /\ \A i \in 1..(Len(state_changes) - 1) :
          /\ state_changes[i].time <= state_changes[i + 1].time
          /\ state_changes[i].time = state_changes[i + 1].time =>
                TickRank(state_changes[i]) <= TickRank(state_changes[i + 1])
    /\ \A i \in Requeues \cup AllDispatches :
          \A p \in DOMAIN procs :
              procs[p].arrival_time <= state_changes[i].time =>
                  \E a \in Admissions : a < i /\ state_changes[a].pid = p
    /\ \A d \in AllDispatches :
          \E k \in DOMAIN gantt_chart :
              /\ gantt_chart[k].pid = state_changes[d].pid
              /\ gantt_chart[k].start = state_changes[d].time
    /\ \A i \in DOMAIN state_changes :
          state_changes[i].to_state = "TERMINATED" =>
              \E k \in DOMAIN gantt_chart :
                  /\ gantt_chart[k].pid = state_changes[i].pid
                  /\ gantt_chart[k].end = state_changes[i].time
                  /\ gantt_chart[k].start = state_changes[i].time - 1
                  /\ \A m \in DOMAIN gantt_chart :
                        gantt_chart[m].pid = state_changes[i].pid => m <= k

\* a tick with an admission, a RUNNING->READY record and a dispatch at its
\* time t, a completion at t + 1 and a dispatch after that completion
C21_Witness ==
    \E a \in Admissions :
        LET t == state_changes[a].time
        IN  /\ a + 3 \in DOMAIN state_changes
            /\ a + 1 \in Requeues /\ state_changes[a + 1].time = t
            /\ a + 2 \in AllDispatches /\ state_changes[a + 2].time = t
            /\ state_changes[a + 3].to_state = "TERMINATED"
            /\ state_changes[a + 3].time = t + 1
            /\ \E d \in AllDispatches : d > a + 3 /\ state_changes[d].time = t + 1

\* C22: every process is admitted at most once (exactly once when the run has
\* finished), a process is NEW exactly while it has no admission record, the
\* admission record carries the arrival_time of the process (so it is never
\* made before the arrival), the timeline holds one process_arrival event per
\* admission, stamped with the same time, and an admitted process is in the
\* ready queue at most once, and only while it is READY.
AdmissionsOf(p) == {i \in Admissions : state_changes[i].pid = p}

ArrivalEventsAt(t) ==
    {i \in DOMAIN timeline : /\ timeline[i].event_type = "process_arrival"
                             /\ timeline[i].time = t}

C22_AdmittedOnceAtArrival ==
    /\ \A p \in DOMAIN procs :
          /\ Cardinality(AdmissionsOf(p)) <= 1
          /\ (procs[p].state = "NEW") = (AdmissionsOf(p) = {})
          /\ (procs[p].state = "NEW") = (RecordsOf(p) = {})
          /\ \A i \in AdmissionsOf(p) :
                /\ state_changes[i].time = procs[p].arrival_time
                /\ i = MinOf(RecordsOf(p))
          /\ pc \in {"loop", "done"} =>
                (AdmissionsOf(p) = {}) = (procs[p].arrival_time >= current_time
                                          /\ \E k \in (process_index + 1)..Len(processes) :
                                                processes[k] = p)
          /\ pc = "done" => Cardinality(AdmissionsOf(p)) = 1
          /\ Count(ready_queue, p) <= 1
          /\ Count(ready_queue, p) = 1 =>
                procs[p].state = "READY" /\ AdmissionsOf(p) # {}
    /\ \A t \in 0..current_time :
          Cardinality(ArrivalEventsAt(t))
              = Cardinality({i \in Admissions : state_changes[i].time = t})

\* a finished run in which a process was admitted, at its arrival time, while
\* another process held the CPU
C22_Witness ==
    /\ pc = "done"
    /\ \E p \in DOMAIN procs : \E i \in AdmissionsOf(p) : \E k \in DOMAIN gantt_chart :
          /\ procs[p].arrival_time > 0
          /\ state_changes[i].time = procs[p].arrival_time
          /\ gantt_chart[k].pid # p
          /\ gantt_chart[k].end = state_changes[i].time
          /\ ArrivalEventsAt(state_changes[i].time) # {}

\* C23: every idle gap (a stretch of time covered by no Gantt entry) has
\* exactly one cpu_idle timeline event, stamped with the time the gap began;
\* the gap ends at the smallest arrival_time after its beginning, and the
\* event is directly followed by the admission made at that time; right after
\* the event the clock stands at the arrival time of the next unarrived
\* process, with no process running or ready.
IdleEvents == {i \in DOMAIN timeline : timeline[i].event_type = "cpu_idle"}

\* the times at which a stretch without Gantt entries begins
GapStarts ==
    {g \in 0..current_time :
        /\ g < current_time
        /\ ~\E k \in DOMAIN gantt_chart : gantt_chart[k].start = g
        /\ \/ g = 0
           \/ \E k \in DOMAIN gantt_chart : gantt_chart[k].end = g}

\* the time at which the gap that begins at g is over
GapEnd(g) ==
    LET later == {gantt_chart[k].start : k \in {m \in DOMAIN gantt_chart :
                                                   gantt_chart[m].start > g}}
    IN  IF later = {} THEN current_time ELSE MinOf(later)

C23_IdleFastForward ==
    /\ {timeline[i].time : i \in IdleEvents} = GapStarts
    /\ Cardinality(IdleEvents) = Cardinality(GapStarts)
    /\ \A i \in IdleEvents :
          LET g == timeline[i].time
              unarrived == {procs[p].arrival_time : p \in {q \in DOMAIN procs :
                                                          procs[q].arrival_time > g}}
          IN  /\ unarrived # {}
              /\ GapEnd(g) = MinOf(unarrived)
              /\ \A p \in DOMAIN procs :
                    procs[p].arrival_time <= g =>
                        procs[p].state = "TERMINATED" /\ procs[p].completion_time <= g
              /\ IF i < Len(timeline)
                 THEN /\ timeline[i + 1].event_type = "process_arrival"
                      /\ timeline[i + 1].time = GapEnd(g)
                 ELSE /\ current_time = GapEnd(g)
                      /\ running_process = None
                      /\ ready_queue = <<>>
                      /\ process_index < Len(processes)
                      /\ current_time = procs[processes[process_index + 1]].arrival_time

\* a finished run with two idle gaps, one of them at least two units long
C23_Witness ==
    /\ pc = "done"
    /\ Cardinality(IdleEvents) = 2
    /\ \E i \in IdleEvents : GapEnd(timeline[i].time) >= timeline[i].time + 2

\* C24: in SJF and SRTF every dispatch (READY->RUNNING record) is of the
\* process with the smallest (remaining_time, pid) among the processes that are
\* READY when the record is made; non-preemptive SJF on P1(0,7), P2(2,4),
\* P3(4,1), P4(5,4) runs P1, P3, P2, P4 in that order, each to completion.
KeyBefore(ka, a, kb, b) == ka < kb \/ (ka = kb /\ a < b)

\* the pids of the Gantt entries from index k on, without repetitions in a row
RECURSIVE GanttOrderFrom(_)
GanttOrderFrom(k) ==
    IF k > Len(gantt_chart) THEN <<>>
    ELSE IF k < Len(gantt_chart) /\ gantt_chart[k + 1].pid = gantt_chart[k].pid
         THEN GanttOrderFrom(k + 1)
         ELSE <<gantt_chart[k].pid>> \o GanttOrderFrom(k + 1)

TestSJFInput ==
    /\ algorithm = "sjf"
    /\ ~preemptive
    /\ \A p \in DOMAIN TestSJF :
          /\ procs[p].arrival_time = TestSJF[p].arrival_time
          /\ procs[p].burst_time = TestSJF[p].burst_time

C24_ShortestFirst ==
    /\ \A d \in AllDispatches :
          LET p == state_changes[d].pid
              t == state_changes[d].time
          IN  \A q \in DOMAIN procs \ {p} :
                  LoggedStateBefore(q, d) = "READY" =>
                      KeyBefore(RemainingAt(p, t), p, RemainingAt(q, t), q)
    /\ (pc = "done" /\ TestSJFInput) =>
          /\ GanttOrderFrom(1) = <<1, 3, 2, 4>>
          /\ completed_processes = <<1, 3, 2, 4>>
          /\ current_time = 16

\* the run of test_sjf has finished; one of its dispatches chose among three
\* READY processes, two of them with equal remaining_time
C24_Witness ==
    /\ pc = "done"
    /\ TestSJFInput
    /\ Len(gantt_chart) = 16
    /\ \E d \in AllDispatches : \E q, r \in DOMAIN procs \ {state_changes[d].pid} :
          /\ q # r
          /\ LoggedStateBefore(q, d) = "READY"
          /\ LoggedStateBefore(r, d) = "READY"
          /\ procs[q].burst_time = procs[r].burst_time

\* C25: in non-preemptive SJF and non-preemptive Priority no RUNNING->READY
\* record is ever made, every process is dispatched at most once, and its
\* Gantt entries cover the consecutive ticks that begin at its start_time:
\* once dispatched it keeps the CPU until its burst is used up, whatever
\* arrives meanwhile.
C25_NeverDisplaced ==
    (algorithm \in {"sjf", "priority"} /\ ~preemptive) =>
        /\ Requeues = {}
        /\ \A c \in DOMAIN context_switches : context_switches[c].from_pid = None
        /\ \A p \in DOMAIN procs : Cardinality(Dispatches(p)) <= 1
        /\ \A k \in DOMAIN gantt_chart :
              LET p == gantt_chart[k].pid
              IN  /\ gantt_chart[k].start
                        = procs[p].start_time + GanttSumRange(p, 0, Horizon, k - 1)
                  /\ gantt_chart[k].end <= procs[p].start_time + procs[p].burst_time
        /\ \A p \in DOMAIN procs :
              procs[p].state = "TERMINATED" =>
                  procs[p].completion_time = procs[p].start_time + procs[p].burst_time
        /\ \A p \in DOMAIN procs :
              procs[p].state = "RUNNING" => running_process = p

\* a finished non-preemptive Priority run in which a process of more urgent
\* priority arrived while another one was running and had to wait for its end
C25_Witness ==
    /\ pc = "done"
    /\ algorithm = "priority"
    /\ ~preemptive
    /\ \E p, q \in DOMAIN procs :
          /\ procs[q].priority < procs[p].priority
          /\ procs[q].arrival_time > procs[p].start_time
          /\ procs[q].arrival_time < procs[p].completion_time
          /\ procs[q].start_time = procs[p].completion_time

\* C26: in SRTF a pass that begins with a running process r preempts it if and
\* only if, among the processes READY after the admissions of the pass, the
\* one with the smallest (remaining_time, pid) has strictly less remaining_time
\* than r.  A preemption records RUNNING->READY for r, leaves r READY in the
\* ready queue, appends one context-switch event from r to the shorter
\* process and gives that process the tick; without a preemption r executes
\* the tick, no context-switch event is recorded and r is not moved.
\* the process of the smallest (remaining_time, pid) in the non-empty set S
MinRemaining(S) ==
    CHOOSE q \in S : \A x \in S \ {q} :
        KeyBefore(procs[q].remaining_time, q, procs[x].remaining_time, x)

SeqToSet(seq) == {seq[i] : i \in DOMAIN seq}

C26_SRTFPreemption ==
    [][(pc = "loop" /\ algorithm = "sjf" /\ preemptive /\ running_process # None) =>
          LET r == running_process
              t == current_time
              ready == SeqToSet(ready_queue) \cup SeqToSet(NewArrivals(process_index, t))
              tick == gantt_chart'[Len(gantt_chart')]
              requeue == [time |-> t, pid |-> r, from_state |-> "RUNNING",
                          to_state |-> "READY", reason |-> "Preempted by shorter job"]
          IN  /\ Len(gantt_chart') = Len(gantt_chart) + 1
              /\ tick.start = t
              /\ IF ready # {} /\ procs[MinRemaining(ready)].remaining_time
                                    < procs[r].remaining_time
                 THEN LET n == MinRemaining(ready)
                      IN  /\ tick.pid = n
                          /\ Count(state_changes', requeue) = Count(state_changes, requeue) + 1
                          /\ procs'[r].state = "READY"
                          /\ procs'[r].remaining_time = procs[r].remaining_time
                          /\ Count(ready_queue', r) = 1
                          /\ Count(ready_queue', n) = 0
                          /\ context_switches' =
                                Append(context_switches,
                                       [time |-> t, from_pid |-> r, to_pid |-> n,
                                        reason |-> "Preemption (shorter job arrived)"])
                          /\ running_process' = IF procs'[n].remaining_time = 0 THEN None ELSE n
                 ELSE /\ tick.pid = r
                      /\ context_switches' = context_switches
                      /\ Count(state_changes', requeue) = Count(state_changes, requeue)
                      /\ Count(ready_queue', r) = 0
                      /\ procs'[r].state \in {"RUNNING", "TERMINATED"}]_vars

\* a process was preempted by the shortest of two READY processes, one of
\* which had arrived with exactly the remaining_time of the running process
C26_Witness ==
    /\ algorithm = "sjf" /\ preemptive
    /\ \E j \in Requeues :
          LET r == state_changes[j].pid
              t == state_changes[j].time
          IN  /\ \E c \in DOMAIN context_switches :
                    /\ context_switches[c].time = t
                    /\ context_switches[c].from_pid = r
                    /\ context_switches[c].to_pid # r
              /\ \E q \in DOMAIN procs \ {r} :
                    /\ procs[q].arrival_time = t
                    /\ procs[q].burst_time = RemainingAt(r, t)

\* C27: in Priority scheduling every dispatch is of the process with the
\* smallest (priority, arrival_time, pid) among the processes that are READY
\* when the record is made; in preemptive mode a pass that begins with a
\* running process r preempts it if and only if the best-ranked process READY
\* after the admissions of the pass has a strictly lower priority value than r
\* (an arrival of equal priority never preempts); in non-preemptive mode r is
\* never preempted.
RanksBefore(a, b) ==
    \/ procs[a].priority < procs[b].priority
    \/ /\ procs[a].priority = procs[b].priority
       /\ \/ procs[a].arrival_time < procs[b].arrival_time
          \/ procs[a].arrival_time = procs[b].arrival_time /\ a < b

\* the best-ranked process of the non-empty set S
BestRanked(S) == CHOOSE q \in S : \A x \in S \ {q} : RanksBefore(q, x)

C27_DispatchInv ==
    \A d \in AllDispatches :
        \A q \in DOMAIN procs \ {state_changes[d].pid} :
            LoggedStateBefore(q, d) = "READY" => RanksBefore(state_changes[d].pid, q)

C27_PriorityOrder ==
    /\ []C27_DispatchInv
    /\ [][(pc = "loop" /\ algorithm = "priority" /\ running_process # None) =>
            LET r == running_process
                t == current_time
                ready == SeqToSet(ready_queue)
                             \cup SeqToSet(NewArrivals(process_index, t))
                tick == gantt_chart'[Len(gantt_chart')]
                requeue == [time |-> t, pid |-> r, from_state |-> "RUNNING",
                            to_state |-> "READY",
                            reason |-> "Preempted by higher priority process"]
            IN  /\ Len(gantt_chart') = Len(gantt_chart) + 1
                /\ tick.start = t
                /\ IF /\ preemptive
                      /\ ready # {}
                      /\ procs[BestRanked(ready)].priority < procs[r].priority
                   THEN /\ tick.pid = BestRanked(ready)
                        /\ Count(state_changes', requeue) = Count(state_changes, requeue) + 1
                        /\ procs'[r].state = "READY"
                        /\ Count(ready_queue', r) = 1
                        /\ context_switches' =
                              Append(context_switches,
                                     [time |-> t, from_pid |-> r,
                                      to_pid |-> BestRanked(ready),
                                      reason |-> "Preemption (higher priority)"])
                   ELSE /\ tick.pid = r
                        /\ context_switches' = context_switches
                        /\ Count(state_changes', requeue) = Count(state_changes, requeue)
                        /\ Count(ready_queue', r) = 0]_vars

\* a finished preemptive run with a preemption by a more urgent arrival and a
\* dispatch that chose the earlier arrival among two READY processes of equal
\* priority, the later one having the smaller pid
C27_Witness ==
    /\ pc = "done"
    /\ algorithm = "priority" /\ preemptive
    /\ Requeues # {}
    /\ \E d \in AllDispatches : \E q \in DOMAIN procs :
          LET p == state_changes[d].pid
          IN  /\ LoggedStateBefore(q, d) = "READY"
              /\ procs[q].priority = procs[p].priority
              /\ procs[p].arrival_time < procs[q].arrival_time
              /\ q < p

\* C28: in Round-Robin every pass turns the ready queue q into q followed by
\* the processes admitted in the pass, in (arrival_time, pid) order, followed
\* by the running process if its quantum has expired, with the head removed
\* if and only if a process is dispatched in the pass, that head being the
\* dispatched process: entries are made at the tail, removals at the head, and
\* the processes that stay keep their relative order.
\* the processes of the set S as a sequence in (arrival_time, pid) order
InArrivalOrder(S) ==
    CHOOSE seq \in [1..Cardinality(S) -> S] :
        \A i, j \in 1..Cardinality(S) : i < j => ArrivesBefore(seq[i], seq[j])

C28_QueueIsFIFO ==
    [][(pc = "loop" /\ algorithm = "round_robin" /\ LoopCondition) =>
          LET r == running_process
              t == current_time
              newcomers == {p \in DOMAIN procs : /\ procs[p].state = "NEW"
                                                 /\ procs[p].arrival_time <= t}
              expiry == [time |-> t, pid |-> r, from_state |-> "RUNNING",
                         to_state |-> "READY", reason |-> "Time quantum expired"]
              expired == r # None /\ Count(state_changes', expiry) > Count(state_changes, expiry)
              full == ready_queue \o InArrivalOrder(newcomers)
                          \o (IF expired THEN <<r>> ELSE <<>>)
              dispatched == (r = None \/ expired) /\ full # <<>>
          IN  /\ \A p \in newcomers : procs'[p].state # "NEW"
              /\ IF dispatched
                 THEN /\ ready_queue' = Tail(full)
                      /\ Len(gantt_chart') = Len(gantt_chart) + 1
                      /\ gantt_chart'[Len(gantt_chart')].pid = Head(full)
                 ELSE ready_queue' = full
              /\ \A i, j \in DOMAIN ready_queue :
                    (i < j /\ Count(ready_queue', ready_queue[i]) = 1
                           /\ Count(ready_queue', ready_queue[j]) = 1) =>
                        \E x, y \in DOMAIN ready_queue' :
                            /\ x < y
                            /\ ready_queue'[x] = ready_queue[i]
                            /\ ready_queue'[y] = ready_queue[j]]_vars

\* the queue holds a process admitted in the last pass in front of the process
\* whose quantum expired in that pass, a third process having been dispatched
\* from the head
C28_Witness ==
    /\ algorithm = "round_robin"
    /\ Len(ready_queue) = 2
    /\ running_process # None
    /\ \E i \in Requeues : \E a \in Admissions :
          /\ state_changes[i].pid = ready_queue[2]
          /\ state_changes[a].pid = ready_queue[1]
          /\ state_changes[i].time = current_time - 1
          /\ state_changes[a].time = current_time - 1
          /\ a < i

\* C29: when a run has finished, current_time is the sum of the burst times of
\* all input processes plus the total length of the idle gaps (which is what
\* run_simulation adds up in idle_time); so the total burst time is at most
\* current_time, with equality exactly when there was no idle gap, and the
\* cpu_utilization of calculate_metrics is at most 100 percent.
RECURSIVE TotalBurst(_)
TotalBurst(k) ==
    IF k = 0 THEN 0 ELSE procs[processes[k]].burst_time + TotalBurst(k - 1)

\* total length of the gaps that begin at g or later
RECURSIVE GapLengthFrom(_)
GapLengthFrom(g) ==
    IF g >= current_time THEN 0
    ELSE (IF \E k \in DOMAIN gantt_chart : gantt_chart[k].start <= g /\ g < gantt_chart[k].end
          THEN 0 ELSE 1)
         + GapLengthFrom(g + 1)

C29_TotalTime ==
    pc = "done" =>
        /\ idle_time = GapLengthFrom(0)
        /\ current_time = TotalBurst(Len(processes)) + GapLengthFrom(0)
        /\ TotalBurst(Len(processes)) <= current_time
        /\ (TotalBurst(Len(processes)) = current_time) = (IdleEvents = {})
        /\ calculate_metrics(Self).cpu_utilization <= 10000
        /\ IdleEvents = {} => calculate_metrics(Self).cpu_utilization = 10000

\* a finished run with idle gaps of three units in all and a utilization
\* strictly between 0 and 100 percent
C29_Witness ==
    /\ pc = "done"
    /\ Cardinality(IdleEvents) = 2
    /\ idle_time = 3
    /\ current_time = TotalBurst(Len(processes)) + 3
    /\ calculate_metrics(Self).cpu_utilization \in 1..9999

\* C30: under every policy the CPU is never idle while a process has arrived
\* and is unfinished: at every time not covered by a Gantt entry, and at the
\* time of every cpu_idle event, each process either has not arrived yet or
\* has already completed; a gap between two consecutive Gantt entries ends at
\* the first arrival after it began; and right after a cpu_idle event the
\* ready queue is empty, no process is running and no process is READY.
ArrivedUnfinishedAt(u) ==
    {p \in DOMAIN procs : /\ procs[p].arrival_time <= u
                          /\ ~(procs[p].state = "TERMINATED" /\ procs[p].completion_time <= u)}

C30_WorkConserving ==
    /\ \A u \in 0..(current_time - 1) :
          (~\E k \in DOMAIN gantt_chart : gantt_chart[k].start = u) =>
              ArrivedUnfinishedAt(u) = {}
    /\ \A i \in IdleEvents :
          /\ ArrivedUnfinishedAt(timeline[i].time) = {}
          /\ \E p \in DOMAIN procs : procs[p].arrival_time > timeline[i].time
    /\ \A k \in 1..(Len(gantt_chart) - 1) :
          gantt_chart[k + 1].start > gantt_chart[k].end =>
              /\ ArrivedUnfinishedAt(gantt_chart[k].end) = {}
              /\ \E p \in DOMAIN procs : procs[p].arrival_time = gantt_chart[k + 1].start
              /\ \A p \in DOMAIN procs :
                    procs[p].arrival_time > gantt_chart[k].end =>
                        procs[p].arrival_time >= gantt_chart[k + 1].start
              /\ \E i \in IdleEvents : timeline[i].time = gantt_chart[k].end
    /\ (timeline # <<>> /\ timeline[Len(timeline)].event_type = "cpu_idle") =>
          /\ ready_queue = <<>>
          /\ running_process = None
          /\ \A p \in DOMAIN procs : procs[p].state \in {"NEW", "TERMINATED"}
    /\ (pc = "loop" /\ LoopCondition /\ gantt_chart # <<>>
           /\ gantt_chart[Len(gantt_chart)].end = current_time) =>
          \/ running_process # None
          \/ ready_queue # <<>>
          \/ ArrivedUnfinishedAt(current_time) = {}
          \/ \E p \in ArrivedUnfinishedAt(current_time) :
                procs[p].state = "NEW" /\ procs[p].arrival_time = current_time

\* a finished run with an idle gap of two units between two Gantt entries,
\* the first process having completed before the second one arrived
C30_Witness ==
    /\ pc = "done"
    /\ \E k \in 1..(Len(gantt_chart) - 1) :
          /\ gantt_chart[k + 1].start = gantt_chart[k].end + 2
          /\ gantt_chart[k + 1].pid # gantt_chart[k].pid
          /\ \E i \in IdleEvents : timeline[i].time = gantt_chart[k].end

\* C31: at every tick boundary each input process is in exactly one place,
\* the one its state names: NEW and nowhere, READY and once in the ready queue,
\* RUNNING and the running process, or TERMINATED and once in
\* completed_processes; so the running process is not in the ready queue, no
\* process is twice in the ready queue and at most one process is RUNNING;
\* and no two Gantt intervals overlap.
PlacesOf(p) ==
    <<Count(ready_queue, p), IF running_process = p THEN 1 ELSE 0,
      Count(completed_processes, p)>>

C31_OnePlace ==
    /\ \A p \in DOMAIN procs :
          PlacesOf(p) = CASE procs[p].state = "NEW" -> <<0, 0, 0>>
                          [] procs[p].state = "READY" -> <<1, 0, 0>>
                          [] procs[p].state = "RUNNING" -> <<0, 1, 0>>
                          [] procs[p].state = "TERMINATED" -> <<0, 0, 1>>
                          [] OTHER -> <<>>
    /\ running_process # None => running_process \in DOMAIN procs
    /\ \A i \in DOMAIN ready_queue : ready_queue[i] \in DOMAIN procs
    /\ \A i \in DOMAIN completed_processes : completed_processes[i] \in DOMAIN procs
    /\ Cardinality({p \in DOMAIN procs : procs[p].state = "RUNNING"}) <= 1
    /\ \A i, j \in DOMAIN gantt_chart :
          i < j => /\ gantt_chart[i].start < gantt_chart[i].end
                   /\ gantt_chart[i].end <= gantt_chart[j].start

\* a process that lost the CPU waits in the ready queue while another one is
\* running and has executed
C31_Witness ==
    /\ pc = "loop"
    /\ Len(ready_queue) = 1
    /\ running_process # None
    /\ \E i \in Requeues : state_changes[i].pid = ready_queue[1]
    /\ gantt_chart[Len(gantt_chart)].pid = running_process
    /\ Len(gantt_chart) >= 2

\* C32: in Round-Robin, in a pass at time t in which the quantum of the
\* running process r expires, no process with arrival_time <= t stays NEW, and
\* if another process has arrived and is unfinished then r ends up last in
\* the ready queue, the tick goes to another process, and every such process
\* is either that one or in the queue in front of r; only when r is alone is
\* it dispatched again at once.
IndexIn(seq, x) == CHOOSE i \in DOMAIN seq : seq[i] = x

C32_ArrivalsAheadOfPreempted ==
    [][(/\ pc = "loop"
        /\ algorithm = "round_robin"
        /\ running_process # None
        /\ \E i \in (Len(state_changes) + 1)..Len(state_changes') :
              /\ state_changes'[i].pid = running_process
              /\ state_changes'[i].from_state = "RUNNING"
              /\ state_changes'[i].to_state = "READY") =>
          LET r == running_process
              t == current_time
              others == {q \in DOMAIN procs \ {r} : /\ procs[q].arrival_time <= t
                                                     /\ procs[q].remaining_time > 0}
              tick == gantt_chart'[Len(gantt_chart')]
          IN  /\ \A q \in DOMAIN procs : procs[q].arrival_time <= t => procs'[q].state # "NEW"
              /\ Len(gantt_chart') = Len(gantt_chart) + 1
              /\ IF others = {}
                 THEN tick.pid = r /\ ready_queue' = <<>>
                 ELSE /\ tick.pid \in others
                      /\ ready_queue' # <<>>
                      /\ ready_queue'[Len(ready_queue')] = r
                      /\ \A q \in others \ {tick.pid} :
                            /\ Count(ready_queue', q) = 1
                            /\ IndexIn(ready_queue', q) < Len(ready_queue')]_vars

\* a process admitted at the very time the quantum of another one expired
\* was dispatched before that one got the CPU back
C32_Witness ==
    \E i \in Requeues : \E a \in Admissions :
        /\ a < i
        /\ state_changes[a].time = state_changes[i].time
        /\ \E d \in Dispatches(state_changes[a].pid) :
              \E e \in Dispatches(state_changes[i].pid) : i < d /\ d < e

\* C33: every completed process has 0 <= response_time <= wait_time and
\* turnaround_time >= burst_time, under every policy; under FCFS,
\* non-preemptive SJF and non-preemptive Priority its response_time equals its
\* wait_time.
NonPreemptivePolicy ==
    algorithm = "fcfs" \/ (algorithm \in {"sjf", "priority"} /\ ~preemptive)

C33_ResponseWithinWait ==
    \A i \in DOMAIN completed_processes :
        LET r == procs[completed_processes[i]]
        IN  /\ r.response_time # None
            /\ 0 <= r.response_time
            /\ r.response_time <= r.wait_time
            /\ r.turnaround_time >= r.burst_time
            /\ NonPreemptivePolicy => r.response_time = r.wait_time

\* a finished run under a preemptive policy: one process ran at once and was
\* never kept waiting, the other one was dispatched on arrival and kept
\* waiting after it had lost the CPU
C33_Witness ==
    /\ pc = "done"
    /\ ~NonPreemptivePolicy
    /\ \E p, q \in DOMAIN procs :
          /\ procs[p].response_time = 0 /\ procs[p].wait_time = 0
          /\ procs[q].response_time = 0
          /\ procs[q].wait_time > 0
          /\ procs[q].turnaround_time > procs[q].burst_time

\* C34: in SRTF the process that executes a tick has, at the beginning of the
\* tick, a remaining_time less than or equal to that of every process that is
\* READY during the tick (admitted, unfinished and not executing); in
\* preemptive Priority it has a priority value less than or equal to that of
\* every such process.
ReadyDuring(k) ==
    {q \in DOMAIN procs \ {gantt_chart[k].pid} :
        /\ procs[q].arrival_time <= gantt_chart[k].start
        /\ RemainingAt(q, gantt_chart[k].start) > 0}

C34_BestIsRunning ==
    \A k \in DOMAIN gantt_chart :
        LET p == gantt_chart[k].pid
            t == gantt_chart[k].start
        IN  \A q \in ReadyDuring(k) :
                /\ (algorithm = "sjf" /\ preemptive) => RemainingAt(p, t) <= RemainingAt(q, t)
                /\ (algorithm = "priority" /\ preemptive) =>
                      procs[p].priority <= procs[q].priority

\* a finished preemptive Priority run in which a tick was executed while a
\* less urgent process that had already run was READY
C34_Witness ==
    /\ pc = "done"
    /\ algorithm = "priority" /\ preemptive
    /\ \E k \in DOMAIN gantt_chart : \E q \in ReadyDuring(k) :
          /\ procs[gantt_chart[k].pid].priority < procs[q].priority
          /\ RemainingAt(q, gantt_chart[k].start) < procs[q].burst_time

\* C35: in Round-Robin a process that is READY at a tick boundary with k
\* processes ahead of it in the ready queue is dispatched after exactly the
\* ticks that the running process has left of its slice plus the slices of the
\* k processes ahead, which is at most (k + 1) * time_quantum; and between two
\* consecutive dispatches of a process every process that was READY when it
\* was re-queued is dispatched exactly once.
\* the ticks of one slice of p in scheduler state s
SliceOf(s, p) == Min(time_quantum, s.procs[p].remaining_time)

\* the ticks that will be executed before the process at position j of the
\* ready queue of s is dispatched
RECURSIVE SlicesAhead(_, _)
SlicesAhead(s, j) ==
    IF j <= 1
    THEN IF s.running_process = None THEN 0
         ELSE Min(s.current_quantum_remaining, s.procs[s.running_process].remaining_time)
    ELSE SliceOf(s, s.ready_queue[j - 1]) + SlicesAhead(s, j - 1)

C35_BoundInv ==
    (algorithm = "round_robin" /\ pc = "loop") =>
        /\ current_quantum_remaining \in 0..time_quantum
        /\ \A j \in DOMAIN ready_queue :
              /\ SlicesAhead(Self, j) >= 0
              /\ SlicesAhead(Self, j) <= j * time_quantum

C35_OncePerRound ==
    \A i \in Requeues :
        LET p == state_changes[i].pid
            later == {d \in Dispatches(p) : d > i}
        IN  later # {} =>
                \A q \in DOMAIN procs \ {p} :
                    LoggedStateBefore(q, i) = "READY" =>
                        Cardinality({d \in Dispatches(q) : i < d /\ d < MinOf(later)}) = 1

C35_BoundedWaiting ==
    /\ []C35_BoundInv
    /\ []C35_OncePerRound
    /\ [][(algorithm = "round_robin" /\ pc = "loop" /\ pc' = "loop") =>
            \A j \in DOMAIN ready_queue :
                LET p == ready_queue[j]
                    due == current_time + SlicesAhead(Self, j)
                IN  IF Count(ready_queue', p) = 1 /\ procs'[p].state = "READY"
                       /\ ~\E d \in (Len(state_changes) + 1)..Len(state_changes') :
                             state_changes'[d].pid = p
                    THEN current_time' + SlicesAhead(Self', IndexIn(ready_queue', p)) = due
                    ELSE /\ due = current_time
                         /\ gantt_chart'[Len(gantt_chart')].pid = p
                         /\ gantt_chart'[Len(gantt_chart')].start = due]_vars

\* a finished run in which a re-queued process found two processes READY and
\* got the CPU back after each of them had been dispatched once
C35_Witness ==
    /\ pc = "done"
    /\ \E i \in Requeues :
          LET p == state_changes[i].pid
          IN  /\ \E d \in Dispatches(p) : d > i
              /\ Cardinality({q \in DOMAIN procs \ {p} :
                                 LoggedStateBefore(q, i) = "READY"}) = 2

\* ---- RoundRobinScheduler(time_quantum=1), whatever time_quantum is ----
RR1_dispatch(s) ==
    IF s.running_process = None /\ s.ready_queue # <<>>
    THEN [DispatchIfIdle(s, "Round Robin scheduling") EXCEPT !.current_quantum_remaining = 1]
    ELSE s

RR1_schedule(s, new_arrivals) ==
    RR1_dispatch(RR_quantum_check(AddArrivals(s, new_arrivals)))

RR1_loop_body(s, idx0, idle0) ==
    LET new_arrivals == NewArrivals(idx0, s.current_time)
        idx == idx0 + Len(new_arrivals)
        s1 == RR1_schedule(s, new_arrivals)
    IN  IF s1.running_process # None
        THEN [self |-> RR_ClearIfCompleted(RR_execute_process(s1, s1.running_process, 1)),
              process_index |-> idx, idle_time |-> idle0]
        ELSE [self |-> IdleBranch(s1, idx),
              process_index |-> idx, idle_time |-> idle0 + IdleDuration(s1, idx)]

\* the scheduler and the locals of run_simulation after n passes of the loop
RECURSIVE RR1_passes(_)
RR1_passes(n) ==
    IF n = 0
    THEN [self |-> FreshScheduler(request), process_index |-> 0, idle_time |-> 0]
    ELSE LET r == RR1_passes(n - 1)
         IN  RR1_loop_body(r.self, r.process_index, r.idle_time)

\* C36: Round-Robin with a time_quantum that is not positive terminates with
\* every process completed, and after every pass of its loop the scheduler
\* (its queue, running process, process fields, clock and logs: everything but
\* the quantum counter) is what a scheduler with time_quantum = 1 holds after
\* as many passes; every dispatch is followed by exactly one executed tick,
\* after which the process is moved RUNNING->READY unless it has completed.
WithoutQuantum(s) == [s EXCEPT !.current_quantum_remaining = 0]

C36_LikeQuantumOneInv ==
    /\ pc \in {"loop", "done"} =>
          LET r == RR1_passes(iterations)
          IN  /\ WithoutQuantum(Self) = WithoutQuantum(r.self)
              /\ process_index = r.process_index
              /\ idle_time = r.idle_time
              /\ time_quantum = 1 => Self = r.self
              /\ LoopCondition =
                    (r.process_index < Len(processes) \/ r.self.running_process # None
                        \/ r.self.ready_queue # <<>>)
    /\ \A d \in AllDispatches :
          /\ TicksOfDispatch(d) <= 1
          /\ (pc = "done" \/ \E j \in AllDispatches : j > d) => TicksOfDispatch(d) = 1
    /\ \A k \in DOMAIN gantt_chart :
          (RemainingAt(gantt_chart[k].pid, gantt_chart[k].end) > 0
              /\ k < Len(gantt_chart)) =>
              \E i \in Requeues : /\ state_changes[i].pid = gantt_chart[k].pid
                                  /\ state_changes[i].time = gantt_chart[k].end
    /\ pc = "done" => AllCompleted

C36_NonPositiveQuantum ==
    /\ []C36_LikeQuantumOneInv
    /\ [](Variant \in Nat)
    /\ [][iterations' # iterations => Variant' < Variant]_vars

\* a finished run with time_quantum <= 0 in which two processes took turns,
\* one tick each
C36_Witness ==
    /\ pc = "done"
    /\ time_quantum <= 0
    /\ \E k \in 1..(Len(gantt_chart) - 2) :
          /\ gantt_chart[k].pid = gantt_chart[k + 2].pid
          /\ gantt_chart[k].pid # gantt_chart[k + 1].pid
          /\ gantt_chart[k + 1].start = gantt_chart[k].end
          /\ gantt_chart[k + 2].start = gantt_chart[k + 1].end


\* ---- C37: the block list is a partition of the address space ----
RECURSIVE SumSizes(_, _)
SumSizes(bs, n) == IF n = 0 THEN 0 ELSE SumSizes(bs, n - 1) + bs[n].size

\* the list bs tiles 0..total-1 in address order with no two free neighbours
IsPartition(bs, total) ==
    /\ Len(bs) >= 1
    /\ bs[1].start_address = 0
    /\ \A i \in 1..(Len(bs) - 1) :
          /\ bs[i].start_address <= bs[i + 1].start_address
          /\ bs[i + 1].start_address = bs[i].start_address + bs[i].size
          /\ bs[i].is_allocated \/ bs[i + 1].is_allocated
    /\ SumSizes(bs, Len(bs)) = total

\* C37: after any sequence of allocate and deallocate calls the blocks are in
\* start-address order, the first starts at 0, each starts where the previous
\* one ends, the sizes sum to total_memory and no two neighbours are both free.
C37_BlocksPartitionMemory == IsPartition(blocks, TotalMemory)

\* ---- C38: a next-fit allocation allocates or fails cleanly ----
\* the last call was allocate with the next-fit algorithm
NextFitCall == memory_result.call = "allocate" /\ memory_result.algorithm = "next_fit"

\* C38: a next-fit allocation either allocates a free block of sufficient size
\* or returns the failure result "No suitable block found"; the pointer left by
\* an earlier allocation never makes the search read past the end of the list.
C38_NextFitAllocatesOrFails ==
    NextFitCall =>
        \/ /\ memory_result.outcome = "success"
           /\ ~memory_result.found.is_allocated
           /\ memory_result.found.size >= memory_result.size
           /\ next_fit_pointer = memory_result.block_index
        \/ memory_result.outcome = "No suitable block found"
====
